---- MODULE Spec2Model ----
(***************************************************************************)
(* Model of the cashplan projection engine                                 *)
(* (FinancialCalculator.calculateLiquidityAndAssets and its per-event      *)
(* delta calculators).                                                     *)
(*                                                                         *)
(* Numbers.  The engine computes on IEEE doubles.  Here a number is a      *)
(* decimal fixed-point value with four fractional digits, held as the      *)
(* integer value * Scale; a product or quotient is rounded to the nearest  *)
(* representable value.  NaN (0/0 in the annuity formula) is a value of    *)
(* its own that every operation propagates, as in the code.                *)
(*                                                                         *)
(* Dates.  A Date is held by its fields in the process's local time zone   *)
(* (month index = year*12 + month-1, day, hour), which is what the         *)
(* date-fns helpers read and write; tz is the zone's offset from UTC in    *)
(* hours.  An ISO date string is the record [y, m, d].                     *)
(***************************************************************************)
EXTENDS Integers, Sequences, FiniteSets, TLC

(* ------------------------------ bounds -------------------------------- *)

\* Largest rangeYears handed to the engine.
MaxRangeYears == 2

\* Longest event list handed to the engine.
MaxEvents == 2

(* ------------------------------ numbers ------------------------------- *)

Scale == 100 * 100

NaN == -(2^30)

IsNaN(x) == x = NaN

FAdd(a, b) == IF IsNaN(a) \/ IsNaN(b) THEN NaN ELSE a + b

FSub(a, b) == IF IsNaN(a) \/ IsNaN(b) THEN NaN ELSE a - b

FNeg(a) == IF IsNaN(a) THEN NaN ELSE 0 - a

\* a * b, rounded to the nearest representable value.
FMul(a, b) ==
  IF IsNaN(a) \/ IsNaN(b) THEN NaN
  ELSE (a \div Scale) * b + ((a % Scale) * b + Scale \div 2) \div Scale

\* a / b, rounded to the nearest representable value; 0 / 0 is NaN.  A non-zero
\* dividend over 0 (an infinity) does not arise: the only divisor that can be 0
\* is (1+r)^n - 1, and then r = 0 and the dividend is P * 0.
FDiv(a, b) ==
  IF IsNaN(a) \/ IsNaN(b) \/ b = 0 THEN NaN
  ELSE (a * Scale + b \div 2) \div b

\* Math.max(0, x): NaN when x is NaN.
MathMax0(x) == IF IsNaN(x) THEN NaN ELSE IF x > 0 THEN x ELSE 0

RECURSIVE MathPow(_, _)
\* Math.pow(base, n) for a whole n >= 0, by squaring.
MathPow(base, n) ==
  IF n = 0 THEN Scale
  ELSE IF n % 2 = 0 THEN FMul(MathPow(base, n \div 2), MathPow(base, n \div 2))
  ELSE FMul(FMul(MathPow(base, n \div 2), MathPow(base, n \div 2)), base)

\* Math.round(x * 100) / 100: to two decimals, a half rounding up.
Round2(x) == IF IsNaN(x) THEN NaN ELSE ((x + 50) \div 100) * 100

\* JavaScript truthiness of a number: 0 and NaN are falsy.
Truthy(x) == ~IsNaN(x) /\ x # 0

(* ------------------------------- dates -------------------------------- *)

IsLeap(y) == (y % 4 = 0 /\ y % 100 # 0) \/ y % 400 = 0

DaysInMonth(mi) ==
  LET m == (mi % 12) + 1
      y == mi \div 12
  IN IF m = 2 THEN (IF IsLeap(y) THEN 29 ELSE 28)
     ELSE IF m \in {4, 6, 9, 11} THEN 30 ELSE 31

\* The position of a Date on the time line, for comparisons.
Instant(x) == (x.mi * 32 + x.d) * 24 + x.h

\* The Date that lies k hours (-24 < k < 24) after x.
ShiftHours(x, k) ==
  LET hh == x.h + k
  IN IF hh < 0
       THEN IF x.d = 1
              THEN [mi |-> x.mi - 1, d |-> DaysInMonth(x.mi - 1), h |-> hh + 24]
              ELSE [mi |-> x.mi, d |-> x.d - 1, h |-> hh + 24]
     ELSE IF hh >= 24
       THEN IF x.d = DaysInMonth(x.mi)
              THEN [mi |-> x.mi + 1, d |-> 1, h |-> hh - 24]
              ELSE [mi |-> x.mi, d |-> x.d + 1, h |-> hh - 24]
     ELSE [mi |-> x.mi, d |-> x.d, h |-> hh]

\* Invalid Date: what parsing a string that is no date gives.  Such a string
\* is held as the record with day 0.
InvalidDate == [mi |-> 0, d |-> 0, h |-> 0]

IsValid(x) == x.d # 0

\* parseISO('YYYY-MM-DD'): midnight of that day in local time.
parseISO(s) ==
  IF s.d = 0 THEN InvalidDate ELSE [mi |-> s.y * 12 + (s.m - 1), d |-> s.d, h |-> 0]

\* new Date('YYYY-MM-DD'): midnight of that day in UTC, seen in local time.
newDate(s, zone) ==
  IF s.d = 0 THEN InvalidDate
  ELSE ShiftHours([mi |-> s.y * 12 + (s.m - 1), d |-> s.d, h |-> 0], zone)

startOfMonth(x) == IF IsValid(x) THEN [mi |-> x.mi, d |-> 1, h |-> 0] ELSE InvalidDate

\* addMonths keeps the day of month, cut to the length of the target month.
addMonths(x, n) ==
  LET t == x.mi + n
  IN IF IsValid(x)
       THEN [mi |-> t, d |-> IF x.d > DaysInMonth(t) THEN DaysInMonth(t) ELSE x.d, h |-> x.h]
       ELSE InvalidDate

isBefore(a, b) == Instant(a) < Instant(b)

isAfter(a, b) == Instant(a) > Instant(b)

isEqual(a, b) == Instant(a) = Instant(b)

\* compareAsc(a, b): -1, 0 or 1.
compareAsc(a, b) == IF Instant(a) < Instant(b) THEN -1 ELSE IF Instant(a) > Instant(b) THEN 1 ELSE 0

\* Mutant of differenceInMonths: the calendar months between the two dates.
differenceInCalendarMonths(left, right) == left.mi - right.mi

\* differenceInMonths(left, right): the full months between the two dates,
\* for a left that is the first day of a month (as currentMonth is): the
\* calendar months between them, less one when the last of them is not full.
differenceInMonths(left, right) ==
  LET sign       == compareAsc(left, right)
      difference == IF left.mi >= right.mi THEN left.mi - right.mi ELSE right.mi - left.mi
      moved      == [mi |-> left.mi - sign * difference, d |-> left.d, h |-> left.h]
      notFull    == compareAsc(moved, right) = 0 - sign
  IN IF difference < 1 THEN 0
     ELSE sign * (difference - IF notFull THEN 1 ELSE 0)

\* Date.getMonth(): 0..11, in local time.
getMonth(x) == x.mi % 12

\* date.toISOString().split('T')[0]: the date in UTC.
toISOStringDate(x, zone) ==
  LET u == ShiftHours(x, 0 - zone)
  IN [y |-> u.mi \div 12, m |-> (u.mi % 12) + 1, d |-> u.d]

RECURSIVE SumFrom(_, _, _, _)
SumFrom(ds, field, k, acc) ==
  IF k > Len(ds) THEN acc ELSE SumFrom(ds, field, k + 1, FAdd(acc, ds[k][field]))

\* acc plus the named field of every delta of ds.
SumField(ds, field, acc) == SumFrom(ds, field, 1, acc)

(* ------------------------- delta calculators -------------------------- *)

\* An absent optional value, and a present one.
None == <<>>

Some(v) == <<v>>

\* { liquidityDelta: 0, assetsDelta: 0 } (newBalance undefined).
ZeroDelta == [liquidityDelta |-> 0, assetsDelta |-> 0, newBalance |-> None]

\* A TypeError thrown where the delta would have been computed.
Thrown == [liquidityDelta |-> 0, assetsDelta |-> 0, newBalance |-> None, thrown |-> TRUE]

HasThrown(delta) == "thrown" \in DOMAIN delta

\* months.includes(n) on the months array.
Includes(months, n) == \E k \in 1..Len(months) : months[k] = n

\* Mutant of notStarted: the start date is not cut to its month.
notStartedByDay(currentMonth, start) == isBefore(currentMonth, start)

\* isBefore(currentMonth, startOfMonth(start)): the event has not started.
notStarted(currentMonth, start) == isBefore(currentMonth, startOfMonth(start))

\* endDate && isAfter(currentMonth, startOfMonth(parseISO(endDate)))
ended(currentMonth, endDate) ==
  endDate # None /\ isAfter(currentMonth, startOfMonth(parseISO(endDate[1])))

\* Mutant of sameMonth: the dates themselves are compared, not their months.
sameDay(currentMonth, date) == isEqual(currentMonth, date)

\* isEqual(startOfMonth(currentMonth), startOfMonth(date))
sameMonth(currentMonth, date) == isEqual(startOfMonth(currentMonth), startOfMonth(date))

\* Mutant of currentMonthNumber: getMonth() is taken to count from 1.
currentMonthNumberZeroBased(currentMonth) == getMonth(currentMonth)

\* currentMonth.getMonth() + 1
currentMonthNumber(currentMonth) == getMonth(currentMonth) + 1

\* The common body of calculateIncomeDelta and calculateExpenseDelta, which
\* differ in the sign of the amount only: `signed` is the liquidityDelta
\* returned when the event contributes.
windowedDelta(event, currentMonth, signed) ==
  LET data  == event.data
      start == parseISO(data.startDate)
  IN IF notStarted(currentMonth, start) THEN ZeroDelta
     ELSE IF ended(currentMonth, data.endDate) THEN ZeroDelta
     ELSE IF ~data.isRecurrent
       THEN IF sameMonth(currentMonth, start)
              THEN [liquidityDelta |-> signed, assetsDelta |-> 0, newBalance |-> None]
              ELSE ZeroDelta
     ELSE IF "months" \notin DOMAIN data THEN Thrown
     ELSE IF Len(data.months) = 0 \/ Includes(data.months, currentMonthNumber(currentMonth))
       THEN [liquidityDelta |-> signed, assetsDelta |-> 0, newBalance |-> None]
     ELSE ZeroDelta

calculateIncomeDelta(event, currentMonth) ==
  windowedDelta(event, currentMonth, event.data.amount)

\* Mutant of calculateExpenseDelta: the amount is not negated.
calculateExpenseDeltaUnsigned(event, currentMonth) ==
  windowedDelta(event, currentMonth, event.data.amount)

calculateExpenseDelta(event, currentMonth) ==
  windowedDelta(event, currentMonth, FNeg(event.data.amount))

\* P * (r * (1+r)^n) / ((1+r)^n - 1), evaluated in the code's order.
annuityPayment(principal, monthlyRate, totalMonths) ==
  LET pow == MathPow(FAdd(Scale, monthlyRate), totalMonths)
  IN FDiv(FMul(principal, FMul(monthlyRate, pow)), FSub(pow, Scale))

\* Mutant of mortgageEnd: the initial month is counted as a month of the term.
mortgageEndEarly(start, years) == addMonths(start, years * 12 - 1)

\* addMonths(start, years * 12): the end of the mortgage.
mortgageEnd(start, years) == addMonths(start, years * 12)

\* The payment branch of calculateMortgageDelta.
mortgagePayment(data, repaymentBalance, amortizedPayment) ==
  LET monthlyRate         == FDiv(data.interestRate, 12 * Scale)
      interestOnlyAmount  == FMul(data.loanedAmount, FSub(Scale, data.repaymentPercentage))
      interestOnlyPayment == FMul(interestOnlyAmount, monthlyRate)
      interestPortion     == FMul(repaymentBalance, monthlyRate)
      principalPortion    == FSub(amortizedPayment, interestPortion)
  IN [liquidityDelta |-> FNeg(FAdd(amortizedPayment, interestOnlyPayment)),
      assetsDelta    |-> principalPortion,
      newBalance     |-> Some(MathMax0(FSub(repaymentBalance, principalPortion)))]

calculateMortgageDelta(event, currentMonth, repaymentBalance) ==
  LET data  == event.data
      start == parseISO(data.startDate)
  IN IF isBefore(currentMonth, startOfMonth(start))
        \/ isAfter(currentMonth, startOfMonth(mortgageEnd(start, data.years)))
       THEN ZeroDelta
     ELSE IF sameMonth(currentMonth, start)
       THEN [liquidityDelta |-> 0,
             assetsDelta    |-> FSub(data.purchasePrice, data.loanedAmount),
             newBalance     |-> Some(repaymentBalance)]
     ELSE mortgagePayment(data, repaymentBalance,
            annuityPayment(FMul(data.loanedAmount, data.repaymentPercentage),
                           FDiv(data.interestRate, 12 * Scale), data.years * 12))

\* Mutant of calculateMortgageRepaymentDelta: assets are credited with what
\* the balance dropped by, not with the amount paid.
calculateMortgageRepaymentDeltaCapped(event, currentMonth, repaymentBalance) ==
  LET data          == event.data
      repaymentDate == parseISO(data.date)
      newBalance    == MathMax0(FSub(repaymentBalance, data.amount))
  IN IF ~sameMonth(currentMonth, repaymentDate)
       THEN ZeroDelta
     ELSE [liquidityDelta |-> FNeg(data.amount),
           assetsDelta    |-> FSub(repaymentBalance, newBalance),
           newBalance     |-> Some(newBalance)]

calculateMortgageRepaymentDelta(event, currentMonth, repaymentBalance) ==
  LET data          == event.data
      repaymentDate == parseISO(data.date)
  IN IF ~sameMonth(currentMonth, repaymentDate)
       THEN ZeroDelta
     ELSE [liquidityDelta |-> FNeg(data.amount),
           assetsDelta    |-> data.amount,
           newBalance     |-> Some(MathMax0(FSub(repaymentBalance, data.amount)))]

\* Mutant of depreciationRate: the bands are a year late.
depreciationRateLate(yearsSincePurchase) ==
  IF yearsSincePurchase <= 2 THEN (2 * Scale) \div 100
  ELSE IF yearsSincePurchase <= 4 THEN (12 * Scale) \div 1000
  ELSE Scale \div 100

\* The monthly rate by the car's age in whole years: 0.02, 0.012 or 0.01.
depreciationRate(yearsSincePurchase) ==
  IF yearsSincePurchase < 2 THEN (2 * Scale) \div 100
  ELSE IF yearsSincePurchase < 4 THEN (12 * Scale) \div 1000
  ELSE Scale \div 100

calculateCarDepreciation(purchasePrice, monthsSincePurchase) ==
  MathMax0(FMul(purchasePrice, depreciationRate(monthsSincePurchase \div 12)))

\* Mutant of termOver: the purchase month is not counted in the term.
termOverLate(monthsSincePurchase, years) ==
  monthsSincePurchase < 0 \/ monthsSincePurchase > years * 12

\* monthsSincePurchase < 0 || monthsSincePurchase >= years * 12
termOver(monthsSincePurchase, years) ==
  monthsSincePurchase < 0 \/ monthsSincePurchase >= years * 12

calculatePCPDelta(event, monthsSincePurchase) ==
  LET data == event.data
  IN IF termOver(monthsSincePurchase, data.years) THEN ZeroDelta
     ELSE IF monthsSincePurchase = 0
       THEN [liquidityDelta |-> FNeg(data.deposit),
             assetsDelta    |-> FSub(data.purchasePrice, data.deposit),
             newBalance     |-> None]
     ELSE [liquidityDelta |->
             FNeg(annuityPayment(
                    FSub(FSub(data.purchasePrice, data.deposit), data.residualValue),
                    FDiv(data.interestRate, 12 * Scale), data.years * 12)),
           assetsDelta    |-> FNeg(calculateCarDepreciation(data.purchasePrice, monthsSincePurchase)),
           newBalance     |-> None]

\* The payment branch of calculateCarLoanDelta.
carLoanPayment(data, monthsSincePurchase, loanBalance, monthlyPayment) ==
  LET monthlyRate      == FDiv(data.interestRate, 12 * Scale)
      interestPortion  == FMul(loanBalance, monthlyRate)
      principalPortion == FSub(monthlyPayment, interestPortion)
  IN [liquidityDelta |-> FNeg(monthlyPayment),
      assetsDelta    |-> FSub(principalPortion,
                              calculateCarDepreciation(data.purchasePrice, monthsSincePurchase)),
      newBalance     |-> Some(MathMax0(FSub(loanBalance, principalPortion)))]

calculateCarLoanDelta(event, monthsSincePurchase, loanBalance) ==
  LET data == event.data
  IN IF termOver(monthsSincePurchase, data.years) THEN ZeroDelta
     ELSE IF monthsSincePurchase = 0
       THEN [liquidityDelta |-> FNeg(data.deposit),
             assetsDelta    |-> FSub(data.purchasePrice, data.deposit),
             newBalance     |-> Some(FSub(data.purchasePrice, data.deposit))]
     ELSE carLoanPayment(data, monthsSincePurchase, loanBalance,
            annuityPayment(FSub(data.purchasePrice, data.deposit),
                           FDiv(data.interestRate, 12 * Scale), data.years * 12))

(* --------------------------- timeline driver -------------------------- *)

\* map.get(key) || fallback
GetOr(map, key, fallback) ==
  IF key \in DOMAIN map /\ Truthy(map[key]) THEN map[key] ELSE fallback

\* map.set(key, value)
MapSet(map, key, value) ==
  [k \in DOMAIN map \cup {key} |-> IF k = key THEN value ELSE map[k]]

\* carPurchaseDates.get(id) || parseISO(startDate): a Date is never falsy.
purchaseDateOf(dates, event) ==
  IF event.id \in DOMAIN dates THEN dates[event.id] ELSE parseISO(event.data.startDate)

\* The types the switch has a case for.
RecognizedTypes == {"income", "expense", "mortgage", "mortgage_repayment", "pcp", "car_loan"}

\* Mutant of initialDelta: the delta starts at one unit of liquidity.
initialDeltaUnit == [liquidityDelta |-> Scale, assetsDelta |-> 0, newBalance |-> None]

\* let delta = { liquidityDelta: 0, assetsDelta: 0 }: what an event keeps when
\* no case of the switch is taken.
initialDelta == ZeroDelta

\* The switch of the event loop: the delta of one event in one month.  Every
\* case reads a field of event.data first, which throws when data is undefined.
dispatch(event, currentMonth, st) ==
  IF event.type \in RecognizedTypes /\ "data" \notin DOMAIN event THEN Thrown
  ELSE
  CASE event.type = "income" ->
         calculateIncomeDelta(event, currentMonth)
    [] event.type = "expense" ->
         calculateExpenseDelta(event, currentMonth)
    [] event.type = "mortgage" ->
         calculateMortgageDelta(event, currentMonth,
           GetOr(st.mortgageBalances, event.id,
                 FMul(event.data.loanedAmount, event.data.repaymentPercentage)))
    [] event.type = "mortgage_repayment" ->
         calculateMortgageRepaymentDelta(event, currentMonth,
           GetOr(st.mortgageBalances, event.data.mortgageEventId, 0))
    [] event.type = "pcp" ->
         calculatePCPDelta(event,
           differenceInMonths(currentMonth, purchaseDateOf(st.carPurchaseDates, event)))
    [] event.type = "car_loan" ->
         calculateCarLoanDelta(event,
           differenceInMonths(currentMonth, purchaseDateOf(st.carPurchaseDates, event)),
           GetOr(st.carLoanBalances, event.id,
                 FSub(event.data.purchasePrice, event.data.deposit)))
    [] OTHER -> initialDelta

\* The key of mortgageBalances an event's newBalance is stored under.
balanceKey(event) ==
  IF event.type = "mortgage_repayment" THEN event.data.mortgageEventId ELSE event.id

\* Mutant of accumulate: the total is overwritten with the delta.
accumulateLast(total, d) == d

\* currentLiquidity += delta.liquidityDelta (and the same for assets).
accumulate(total, d) == FAdd(total, d)

\* The end of one pass of `for (const event of events)`: the totals and the
\* maps after the event's delta; st.deltas collects the month's deltas.  A
\* throw leaves the loop at once.
applyDelta(event, st, delta) ==
  IF HasThrown(delta) THEN [st EXCEPT !.thrown = TRUE]
  ELSE
  [currentLiquidity |-> accumulate(st.currentLiquidity, delta.liquidityDelta),
   currentAssets    |-> accumulate(st.currentAssets, delta.assetsDelta),
   mortgageBalances |->
     IF event.type \in {"mortgage", "mortgage_repayment"} /\ delta.newBalance # None
       THEN MapSet(st.mortgageBalances, balanceKey(event), delta.newBalance[1])
       ELSE st.mortgageBalances,
   carLoanBalances  |->
     IF event.type = "car_loan" /\ delta.newBalance # None
       THEN MapSet(st.carLoanBalances, event.id, delta.newBalance[1])
       ELSE st.carLoanBalances,
   carPurchaseDates |->
     IF event.type \in {"pcp", "car_loan"} /\ event.id \notin DOMAIN st.carPurchaseDates
       THEN MapSet(st.carPurchaseDates, event.id, parseISO(event.data.startDate))
       ELSE st.carPurchaseDates,
   deltas           |-> Append(st.deltas, delta),
   thrown           |-> FALSE]

processEvent(event, currentMonth, st) ==
  applyDelta(event, st, dispatch(event, currentMonth, st))

RECURSIVE processEvents(_, _, _, _)
\* `for (const event of events)` from the k-th event on.
processEvents(evs, k, currentMonth, st) ==
  IF k > Len(evs) \/ st.thrown THEN st
  ELSE processEvents(evs, k + 1, currentMonth, processEvent(evs[k], currentMonth, st))

\* The totals and the maps as the call creates them, before the first month.
initialState ==
  [currentLiquidity |-> 0, currentAssets |-> 0, mortgageBalances |-> << >>,
   carLoanBalances |-> << >>, carPurchaseDates |-> << >>, deltas |-> << >>,
   thrown |-> FALSE]

\* The data point pushed for currentMonth; toISOString() throws on an Invalid
\* Date, which a caller of dataPoint has excluded.
dataPoint(currentMonth, st, zone) ==
  [month     |-> toISOStringDate(currentMonth, zone),
   liquidity |-> Round2(st.currentLiquidity),
   assets    |-> Round2(st.currentAssets)]

RECURSIVE monthLoop(_, _, _, _, _, _, _)
\* The month loop from monthIndex i on, st being the state the months before
\* it left and points the data points pushed for them.
monthLoop(evs, first, i, n, zone, st, points) ==
  IF i >= n THEN [raised |-> FALSE, points |-> points]
  ELSE IF ~IsValid(first) THEN [raised |-> TRUE, points |-> << >>]
  ELSE CHOOSE r \in
         { IF after.thrown THEN [raised |-> TRUE, points |-> << >>]
           ELSE monthLoop(evs, first, i + 1, n, zone, after,
                          Append(points, dataPoint(addMonths(first, i), after, zone))) :
             after \in { processEvents(evs, 1, addMonths(first, i),
                                       [st EXCEPT !.deltas = << >>]) } } : TRUE

\* calculateLiquidityAndAssets as a function of its arguments and the time
\* zone: what it returns, or that it raised.
calculateLiquidityAndAssets(evs, start, years, zone) ==
  monthLoop(evs,
            startOfMonth(IF start.form = "string" THEN parseISO(start.iso)
                         ELSE newDate(start.iso, zone)),
            0, years * 12, zone, initialState, << >>)

(* ------------------------------- inputs ------------------------------- *)

Day(y, m, d) == [y |-> y, m |-> m, d |-> d]

\* value * Scale of the decimal number whole.frac4 (frac4: four digits).
Dec(whole, frac4) == whole * Scale + frac4

incomeData(amount, isRecurrent, months, startDate, endDate) ==
  [amount |-> amount, isRecurrent |-> isRecurrent, months |-> months,
   startDate |-> startDate, endDate |-> endDate]

mortgageData(startDate, purchasePrice, loanedAmount, interestRate, repaymentPercentage, years) ==
  [startDate |-> startDate, purchasePrice |-> purchasePrice, loanedAmount |-> loanedAmount,
   interestRate |-> interestRate, repaymentPercentage |-> repaymentPercentage, years |-> years]

\* A PCP's payload; a car loan's has no residualValue, which is left 0 here
\* and never read.
carData(startDate, purchasePrice, deposit, years, interestRate, residualValue) ==
  [startDate |-> startDate, purchasePrice |-> purchasePrice, deposit |-> deposit,
   years |-> years, interestRate |-> interestRate, residualValue |-> residualValue]

\* The events the lists are drawn from; an event's id is its place here.
EventPool ==
  << \* 1: income, every month, three decimals in the amount
     [id |-> 1, type |-> "income",
      data |-> incomeData(Dec(34, 5670), TRUE, <<>>, Day(2025, 3, 15), None)],
     \* 2: expense in January, June and December, with an end date
     [id |-> 2, type |-> "expense",
      data |-> incomeData(Dec(20, 0), TRUE, <<1, 6, 12>>, Day(2025, 3, 10), Some(Day(2026, 1, 20)))],
     \* 3: one-off income on the last day of a month
     [id |-> 3, type |-> "income",
      data |-> incomeData(Dec(100, 0), FALSE, <<>>, Day(2025, 8, 31), None)],
     \* 4: expense with the payload of income 1
     [id |-> 4, type |-> "expense",
      data |-> incomeData(Dec(34, 5670), TRUE, <<>>, Day(2025, 3, 15), None)],
     \* 5: one-off expense whose end date precedes its start
     [id |-> 5, type |-> "expense",
      data |-> incomeData(Dec(7, 2500), FALSE, <<>>, Day(2025, 4, 5), Some(Day(2025, 2, 1)))],
     \* 6: repayment mortgage, 12% a year, one year
     [id |-> 6, type |-> "mortgage",
      data |-> mortgageData(Day(2025, 2, 28), Dec(10, 0), Dec(9, 0), Dec(0, 1200), Dec(1, 0), 1)],
     \* 7: mortgage at 0% interest, half of it on repayment
     [id |-> 7, type |-> "mortgage",
      data |-> mortgageData(Day(2025, 1, 31), Dec(10, 0), Dec(8, 0), 0, Dec(0, 5000), 1)],
     \* 8: interest-only mortgage
     [id |-> 8, type |-> "mortgage",
      data |-> mortgageData(Day(2025, 3, 15), Dec(10, 0), Dec(10, 0), Dec(0, 1200), 0, 1)],
     \* 9: lump-sum repayment against mortgage 6
     [id |-> 9, type |-> "mortgage_repayment",
      data |-> [mortgageEventId |-> 6, date |-> Day(2025, 7, 15), amount |-> Dec(2, 0)]],
     \* 10: one-off expense
     [id |-> 10, type |-> "expense",
      data |-> incomeData(Dec(15, 5050), FALSE, <<>>, Day(2025, 2, 14), None)],
     \* 11: lump-sum repayment of the whole of mortgage 6
     [id |-> 11, type |-> "mortgage_repayment",
      data |-> [mortgageEventId |-> 6, date |-> Day(2025, 5, 10), amount |-> Dec(9, 0)]],
     \* 12: PCP bought on the first day of a month
     [id |-> 12, type |-> "pcp",
      data |-> carData(Day(2025, 2, 1), Dec(10, 0), Dec(2, 0), 2, Dec(0, 1200), Dec(3, 0))],
     \* 13: PCP bought in the middle of a month
     [id |-> 13, type |-> "pcp",
      data |-> carData(Day(2025, 2, 15), Dec(10, 0), Dec(2, 0), 2, Dec(0, 1200), Dec(3, 0))],
     \* 14: car loan bought on the first day of a month
     [id |-> 14, type |-> "car_loan",
      data |-> carData(Day(2025, 3, 1), Dec(10, 0), Dec(2, 0), 3, Dec(0, 1200), 0)],
     \* 15: car loan bought on the last day of a month
     [id |-> 15, type |-> "car_loan",
      data |-> carData(Day(2025, 1, 31), Dec(10, 0), Dec(1, 0), 3, Dec(0, 600), 0)],
     \* 16: an event of no known type, with the payload of an income
     [id |-> 16, type |-> "bonus",
      data |-> incomeData(Dec(5, 0), TRUE, <<>>, Day(2025, 1, 1), None)],
     \* 17: an event of no known type and no payload
     [id |-> 17, type |-> "transfer"],
     \* 18: recurrent income whose payload lacks months
     [id |-> 18, type |-> "income",
      data |-> [amount |-> Dec(5, 0), isRecurrent |-> TRUE,
                startDate |-> Day(2025, 4, 1), endDate |-> None]],
     \* 19: expense with no payload
     [id |-> 19, type |-> "expense"],
     \* 20: PCP whose residual value is more than what is financed
     [id |-> 20, type |-> "pcp",
      data |-> carData(Day(2025, 2, 1), Dec(10, 0), Dec(2, 0), 2, Dec(0, 1200), Dec(9, 0))],
     \* 21: car loan bought in the middle of December 2024
     [id |-> 21, type |-> "car_loan",
      data |-> carData(Day(2024, 12, 15), Dec(10, 0), Dec(2, 0), 3, Dec(0, 1200), 0)],
     \* 22: PCP bought on the first day of December 2024
     [id |-> 22, type |-> "pcp",
      data |-> carData(Day(2024, 12, 1), Dec(10, 0), Dec(2, 0), 2, Dec(0, 1200), Dec(3, 0))] >>

\* A mortgage, a repayment against it and a car loan.
RepeatIds == {6, 9, 14}

\* The event lists over ids: up to MaxEvents events, in any order, none twice.
EventLists(ids) ==
  { [k \in DOMAIN l |-> EventPool[l[k]]] :
      l \in { f \in UNION { [1..n -> ids] : n \in 0..MaxEvents } :
                \A a, b \in DOMAIN f : a # b => f[a] # f[b] } }

\* startDate as the caller passes it: an ISO string, or the Date object
\* new Date(iso).
StartDates ==
  { [form |-> "string", iso |-> Day(2025, 1, 1)],
    [form |-> "string", iso |-> Day(2025, 6, 15)],
    [form |-> "Date", iso |-> Day(2025, 1, 1)] }

\* A startDate that is no date.
NoDate == [form |-> "string", iso |-> Day(0, 0, 0)]

\* The process's offset from UTC, in hours.
TimeZones == {-1, 0, 1}

\* Largest rangeYears handed to the engine with car events, whose terms are
\* two years and more.
MaxCarRangeYears == 3

\* Oldest car, in months, handed to calculateCarDepreciation.
MaxCarAge == 60

\* The purchase prices handed to calculateCarDepreciation.
Prices == {0, Dec(0, 5000), Dec(10, 0), Dec(12, 3000), Dec(15, 0)}

(* ------------------------- payload validation ------------------------- *)

\* typeof data[field] === 'number'.  The numeric fields of the payloads of
\* the model hold numbers, so the test fails on an absent field only.
IsNumber(data, field) == field \in DOMAIN data

\* /^\d{4}-\d{2}-\d{2}$/.test(s): every date string of the model but the
\* unparseable one has the format.
dateRegexTest(s) == s # Day(0, 0, 0)

\* !data[field] || !dateRegex.test(data[field])
badDate(data, field) == field \notin DOMAIN data \/ ~dateRegexTest(data[field])

\* typeof data.interestRate !== 'number' || data.interestRate < 0 || data.interestRate > 1
badRate(data, field) ==
  ~IsNumber(data, field) \/ data[field] < 0 \/ data[field] > Scale

\* The years a PCP may run for.
PCPYears == {2, 3, 5}

\* The checks of a pcp and of a car_loan payload before the check of years.
validateCarData(data) ==
  IF badDate(data, "startDate") THEN Some("startDate must be in YYYY-MM-DD format")
  ELSE IF ~IsNumber(data, "purchasePrice") \/ data.purchasePrice <= 0
    THEN Some("purchasePrice must be a positive number")
  ELSE IF ~IsNumber(data, "deposit") \/ data.deposit < 0
    THEN Some("deposit must be a non-negative number")
  ELSE IF data.deposit > data.purchasePrice
    THEN Some("deposit cannot exceed purchasePrice")
  ELSE None

\* validateEventData(type, data): None for null, or the message returned.
validateEventData(type, data) ==
  IF type \in {"income", "expense"} THEN
    IF ~IsNumber(data, "amount") \/ data.amount <= 0
      THEN Some("Amount must be a positive number")
    ELSE IF "isRecurrent" \notin DOMAIN data THEN Some("isRecurrent must be a boolean")
    ELSE IF "months" \notin DOMAIN data THEN Some("months must be an array")
    ELSE IF \E i \in DOMAIN data.months : data.months[i] < 1 \/ data.months[i] > 12
      THEN Some("months array must contain numbers between 1 and 12")
    ELSE IF badDate(data, "startDate") THEN Some("startDate must be in YYYY-MM-DD format")
    ELSE IF "endDate" \in DOMAIN data /\ data.endDate # None /\ ~dateRegexTest(data.endDate[1])
      THEN Some("endDate must be in YYYY-MM-DD format")
    ELSE None
  ELSE IF type = "mortgage" THEN
    IF badDate(data, "startDate") THEN Some("startDate must be in YYYY-MM-DD format")
    ELSE IF ~IsNumber(data, "purchasePrice") \/ data.purchasePrice <= 0
      THEN Some("purchasePrice must be a positive number")
    ELSE IF ~IsNumber(data, "loanedAmount") \/ data.loanedAmount <= 0
      THEN Some("loanedAmount must be a positive number")
    ELSE IF data.loanedAmount > data.purchasePrice
      THEN Some("loanedAmount cannot exceed purchasePrice")
    ELSE IF badRate(data, "interestRate")
      THEN Some("interestRate must be a number between 0 and 1")
    ELSE IF badRate(data, "repaymentPercentage")
      THEN Some("repaymentPercentage must be a number between 0 and 1")
    ELSE IF ~IsNumber(data, "years") \/ data.years <= 0
      THEN Some("years must be a positive number")
    ELSE None
  ELSE IF type = "mortgage_repayment" THEN
    IF ~IsNumber(data, "mortgageEventId") \/ data.mortgageEventId <= 0
      THEN Some("mortgageEventId must be a positive number")
    ELSE IF badDate(data, "date") THEN Some("date must be in YYYY-MM-DD format")
    ELSE IF ~IsNumber(data, "amount") \/ data.amount <= 0
      THEN Some("amount must be a positive number")
    ELSE None
  ELSE IF type = "pcp" THEN
    IF validateCarData(data) # None THEN validateCarData(data)
    ELSE IF "years" \notin DOMAIN data \/ data.years \notin PCPYears
      THEN Some("years must be 2, 3, or 5")
    ELSE IF ~IsNumber(data, "residualValue") \/ data.residualValue < 0
      THEN Some("residualValue must be a non-negative number")
    ELSE IF badRate(data, "interestRate")
      THEN Some("interestRate must be a number between 0 and 1")
    ELSE None
  ELSE IF type = "car_loan" THEN
    IF validateCarData(data) # None THEN validateCarData(data)
    ELSE IF ~IsNumber(data, "years") \/ data.years < 3 \/ data.years > 10
      THEN Some("years must be between 3 and 10")
    ELSE IF badRate(data, "interestRate")
      THEN Some("interestRate must be a number between 0 and 1")
    ELSE None
  ELSE None

(* -------------------------------- state ------------------------------- *)

VARIABLES
  events,            \* argument: the event list
  startDate,         \* argument: the start date
  rangeYears,        \* argument
  tz,                \* the time zone of the process
  pc,                \* "loop" inside the month loop, "done" after return,
                     \* "raised" after a throw, "idle" outside any call
  monthIndex,
  currentLiquidity,
  currentAssets,
  mortgageBalances,
  carLoanBalances,
  carPurchaseDates,
  dataPoints,
  depreciation,      \* a call of calculateCarDepreciation: its arguments and result
  deltas,            \* history: each event's delta in the month just processed
  prevBalances,      \* history: mortgageBalances before the month just processed
  prevCarBalances,   \* history: carLoanBalances before the month just processed
  sumLiquidity,      \* history: the sum of every liquidityDelta so far
  sumAssets,         \* history: the sum of every assetsDelta so far
  history,           \* history: per event, the months it had a non-zero
                     \* liquidityDelta in, and the sums of its deltas
  earlier,           \* history: the first call that returned, if the call
                     \* under way is a later one
  vehicle,           \* a financed car as the months of its term go by
  eventRows,         \* the rows of the events table
  lastInsertRowid,   \* the id the events table gave out last (AUTOINCREMENT)
  response,          \* the events router's answer to the last request
  chart,             \* a chart-data request and the answer to it
  sessions,          \* the session store: what each session holds
  request,           \* the last request ensureUserId has let through
  conversion         \* a row put through the row/object converters

vars == <<events, startDate, rangeYears, tz, pc, monthIndex, currentLiquidity,
          currentAssets, mortgageBalances, carLoanBalances, carPurchaseDates,
          dataPoints, depreciation, deltas, prevBalances, prevCarBalances,
          sumLiquidity, sumAssets, history, earlier, vehicle, eventRows,
          lastInsertRowid, response, chart, sessions, request, conversion>>

\* The state of the server around the calculator.
server == <<vehicle, eventRows, lastInsertRowid, response, chart, sessions, request,
            conversion>>

\* The server before any request: no row, no session.
ServerIdle ==
  /\ vehicle = None
  /\ eventRows = {}
  /\ lastInsertRowid = 0
  /\ response = None
  /\ chart = None
  /\ sessions = << >>
  /\ request = None
  /\ conversion = None

args == <<events, startDate, rangeYears, tz>>

planStartDate == IF startDate.form = "string" THEN parseISO(startDate.iso)
                 ELSE newDate(startDate.iso, tz)

startMonth == startOfMonth(planStartDate)

totalMonths == rangeYears * 12

\* The locals of a call as it begins (the maps are created inside the call).
Locals ==
  /\ pc = "loop"
  /\ monthIndex = 0
  /\ currentLiquidity = initialState.currentLiquidity
  /\ currentAssets = initialState.currentAssets
  /\ mortgageBalances = initialState.mortgageBalances
  /\ carLoanBalances = initialState.carLoanBalances
  /\ carPurchaseDates = initialState.carPurchaseDates
  /\ dataPoints = << >>
  /\ deltas = << >>
  /\ prevBalances = << >>
  /\ prevCarBalances = << >>
  /\ sumLiquidity = 0
  /\ sumAssets = 0
  /\ history = [k \in DOMAIN events |-> [months |-> 0, liquidity |-> 0, assets |-> 0]]

\* The state at the start of a call with arguments from the given sets.
InitWith(lists, starts, ranges, zones) ==
  /\ events \in lists
  /\ startDate \in starts
  /\ rangeYears \in ranges
  /\ tz \in zones
  /\ Locals
  /\ depreciation = None
  /\ earlier = None
  /\ ServerIdle

\* The state at the start of a call on an event list over ids.
InitOver(ids) == InitWith(EventLists(ids), StartDates, 1..MaxRangeYears, TimeZones)

Init == InitOver({1, 2, 3, 6, 7, 9})

InitIncomeExpense == InitOver({1, 2, 3, 4, 5, 10})

InitMortgage == InitOver({1, 6, 7, 8, 9})

InitRepayment == InitOver({1, 6, 9, 11})

InitFinancing == InitOver({6, 8, 12, 20, 21, 22})

InitCar == InitWith(EventLists({12, 13, 14, 15}), StartDates, 1..MaxCarRangeYears, TimeZones)

\* Calls with any arguments: a rangeYears that is not positive and a
\* startDate that is no date among them.
InitAnyArguments ==
  InitWith(EventLists({1, 16, 17, 18, 19}), StartDates \cup {NoDate}, (-1)..MaxRangeYears, TimeZones)

InitRepeat ==
  InitWith(EventLists(RepeatIds), {[form |-> "string", iso |-> Day(2025, 1, 1)]},
           1..MaxRangeYears, {0})

\* Mutant of loopCondition: the loop runs one month too many.
loopConditionInclusive == monthIndex <= totalMonths

\* monthIndex < totalMonths
loopCondition == monthIndex < totalMonths

\* Mutant of carry: the rounded value of the data point is fed back.
carryRounded(total) == Round2(total)

\* What a running total carries into the next month.
carry(total) == total

\* The history after a month with deltas ds.
recorded(ds) ==
  [k \in DOMAIN events |->
     [months    |-> history[k].months + IF ds[k].liquidityDelta # 0 THEN 1 ELSE 0,
      liquidity |-> FAdd(history[k].liquidity, ds[k].liquidityDelta),
      assets    |-> FAdd(history[k].assets, ds[k].assetsDelta)]]

\* The totals and the maps as the month loop holds them.
loopState ==
  [currentLiquidity |-> currentLiquidity, currentAssets |-> currentAssets,
   mortgageBalances |-> mortgageBalances, carLoanBalances |-> carLoanBalances,
   carPurchaseDates |-> carPurchaseDates, deltas |-> << >>, thrown |-> FALSE]

\* One pass of the month loop: every event in turn, then the data point.
ProcessMonth ==
  /\ pc = "loop"
  /\ loopCondition
  /\ IsValid(startMonth)
  /\ \E st \in { processEvents(events, 1, addMonths(startMonth, monthIndex), loopState) } :
        /\ ~st.thrown
        /\ currentLiquidity' = carry(st.currentLiquidity)
        /\ currentAssets' = carry(st.currentAssets)
        /\ mortgageBalances' = st.mortgageBalances
        /\ carLoanBalances' = st.carLoanBalances
        /\ carPurchaseDates' = st.carPurchaseDates
        /\ dataPoints' = Append(dataPoints,
                           dataPoint(addMonths(startMonth, monthIndex), st, tz))
        /\ deltas' = st.deltas
        /\ sumLiquidity' = SumField(st.deltas, "liquidityDelta", sumLiquidity)
        /\ sumAssets' = SumField(st.deltas, "assetsDelta", sumAssets)
        /\ history' = recorded(st.deltas)
  /\ prevBalances' = mortgageBalances
  /\ prevCarBalances' = carLoanBalances
  /\ monthIndex' = monthIndex + 1
  /\ UNCHANGED <<args, pc, depreciation, earlier, server>>

\* A pass of the month loop that throws: a TypeError while an event is
\* processed, or the RangeError of toISOString() on an Invalid Date.
Throw ==
  /\ pc = "loop"
  /\ loopCondition
  /\ \/ ~IsValid(startMonth)
     \/ processEvents(events, 1, addMonths(startMonth, monthIndex), loopState).thrown
  /\ pc' = "raised"
  /\ UNCHANGED <<args, monthIndex, currentLiquidity, currentAssets, mortgageBalances,
                 carLoanBalances, carPurchaseDates, dataPoints, depreciation, deltas,
                 prevBalances, prevCarBalances, sumLiquidity, sumAssets, history, earlier,
                 server>>

\* The loop ends and dataPoints is returned.
Return ==
  /\ pc = "loop"
  /\ ~loopCondition
  /\ pc' = "done"
  /\ UNCHANGED <<args, monthIndex, currentLiquidity, currentAssets, mortgageBalances,
                 carLoanBalances, carPurchaseDates, dataPoints, depreciation, deltas,
                 prevBalances, prevCarBalances, sumLiquidity, sumAssets, history, earlier,
                 server>>

\* The arguments and the result of the call that has just returned.
thisCall == [events |-> events, rangeYears |-> rangeYears, points |-> dataPoints]

\* Mutant of newMap: the map is a field of the instance, kept between calls.
keptMap(map) == map

\* new Map(): a map created inside the call.
newMap(map) == << >>

\* Another call of calculateLiquidityAndAssets after one has returned, on the
\* same instance, with the same or with other arguments.
CallAgain ==
  /\ pc = "done"
  /\ events' \in EventLists(RepeatIds)
  /\ rangeYears' \in 1..MaxRangeYears
  /\ earlier' = IF earlier = None
                  THEN Some([call |-> thisCall, between |-> FALSE])
                ELSE IF thisCall # earlier[1].call
                  THEN Some([earlier[1] EXCEPT !.between = TRUE])
                ELSE earlier
  /\ pc' = "loop"
  /\ monthIndex' = 0
  /\ currentLiquidity' = 0
  /\ currentAssets' = 0
  /\ mortgageBalances' = newMap(mortgageBalances)
  /\ carLoanBalances' = newMap(carLoanBalances)
  /\ carPurchaseDates' = newMap(carPurchaseDates)
  /\ dataPoints' = << >>
  /\ deltas' = << >>
  /\ prevBalances' = << >>
  /\ prevCarBalances' = << >>
  /\ sumLiquidity' = 0
  /\ sumAssets' = 0
  /\ history' = [k \in DOMAIN events' |-> [months |-> 0, liquidity |-> 0, assets |-> 0]]
  /\ UNCHANGED <<startDate, tz, depreciation, server>>

\* The state before a call of calculateCarDepreciation.
InitDepreciation ==
  /\ depreciation \in { Some([purchasePrice |-> p, monthsSincePurchase |-> m, result |-> None]) :
                           p \in Prices, m \in 0..MaxCarAge }
  /\ events = << >>
  /\ startDate = [form |-> "string", iso |-> Day(2025, 1, 1)]
  /\ rangeYears = 1
  /\ tz = 0
  /\ pc = "idle"
  /\ monthIndex = 0
  /\ currentLiquidity = 0
  /\ currentAssets = 0
  /\ mortgageBalances = << >>
  /\ carLoanBalances = << >>
  /\ carPurchaseDates = << >>
  /\ dataPoints = << >>
  /\ deltas = << >>
  /\ prevBalances = << >>
  /\ prevCarBalances = << >>
  /\ sumLiquidity = 0
  /\ sumAssets = 0
  /\ history = << >>
  /\ earlier = None
  /\ ServerIdle

\* calculateCarDepreciation is called and returns.
Depreciate ==
  /\ depreciation # None
  /\ depreciation[1].result = None
  /\ depreciation' =
       Some([depreciation[1] EXCEPT
               !.result = Some(calculateCarDepreciation(depreciation[1].purchasePrice,
                                                        depreciation[1].monthsSincePurchase))])
  /\ UNCHANGED <<args, pc, monthIndex, currentLiquidity, currentAssets, mortgageBalances,
                 carLoanBalances, carPurchaseDates, dataPoints, deltas, prevBalances,
                 prevCarBalances, sumLiquidity, sumAssets, history, earlier, server>>

\* The calculator's variables.
calculator == <<events, startDate, rangeYears, tz, pc, monthIndex, currentLiquidity,
                currentAssets, mortgageBalances, carLoanBalances, carPurchaseDates,
                dataPoints, depreciation, deltas, prevBalances, prevCarBalances,
                sumLiquidity, sumAssets, history, earlier>>

\* No call of the calculator is under way.
CalculatorIdle ==
  /\ events = << >>
  /\ startDate = [form |-> "string", iso |-> Day(2025, 1, 1)]
  /\ rangeYears = 1
  /\ tz = 0
  /\ pc = "idle"
  /\ monthIndex = 0
  /\ currentLiquidity = 0
  /\ currentAssets = 0
  /\ mortgageBalances = << >>
  /\ carLoanBalances = << >>
  /\ carPurchaseDates = << >>
  /\ dataPoints = << >>
  /\ depreciation = None
  /\ deltas = << >>
  /\ prevBalances = << >>
  /\ prevCarBalances = << >>
  /\ sumLiquidity = 0
  /\ sumAssets = 0
  /\ history = << >>
  /\ earlier = None

(* ----------------------- a car over its term -------------------------- *)

\* The years a car loan may run for: 3 to 10 (validateEventData).
CarLoanYears == 3..10

\* The value the comment in calculateCarDepreciation names as the least a
\* car is worth.
MinimumCarValue == Dec(1500, 0)

\* A PCP or car loan in its purchase month, bought for 2000, 12000 or 20000
\* pounds: nothing depreciated yet.
InitVehicle ==
  /\ vehicle \in
       { Some([type |-> t, years |-> y, purchasePrice |-> p,
               monthsSincePurchase |-> 0, depreciated |-> 0]) :
           t \in {"pcp", "car_loan"}, y \in PCPYears \cup CarLoanYears, 
           p \in {Dec(2000, 0), Dec(12000, 0), Dec(20000, 0)} }
  /\ vehicle[1].type = "pcp" => vehicle[1].years \in PCPYears
  /\ vehicle[1].type = "car_loan" => vehicle[1].years \in CarLoanYears
  /\ CalculatorIdle
  /\ eventRows = {}
  /\ lastInsertRowid = 0
  /\ response = None
  /\ chart = None
  /\ sessions = << >>
  /\ request = None
  /\ conversion = None

\* A payment month of the car's term: calculatePCPDelta and
\* calculateCarLoanDelta take calculateCarDepreciation(purchasePrice,
\* monthsSincePurchase) off the assets.
DepreciateMonth ==
  /\ vehicle # None
  /\ ~termOver(vehicle[1].monthsSincePurchase + 1, vehicle[1].years)
  /\ vehicle' =
       Some([vehicle[1] EXCEPT
               !.monthsSincePurchase = @ + 1,
               !.depreciated =
                  FAdd(@, calculateCarDepreciation(vehicle[1].purchasePrice,
                                                   vehicle[1].monthsSincePurchase + 1))])
  /\ UNCHANGED <<calculator, eventRows, lastInsertRowid, response, chart, sessions,
                 request, conversion>>

(* ----------------------------- the routers ---------------------------- *)

\* A string is a sequence of characters; << >> is the empty string and also
\* stands for a parameter that is not there (undefined).
DigitChars == <<"0", "1", "2", "3", "4", "5", "6", "7", "8", "9">>

\* The value of a digit; -1 for any other character.
DigitValue(c) ==
  IF \E d \in DOMAIN DigitChars : DigitChars[d] = c
    THEN (CHOOSE d \in DOMAIN DigitChars : DigitChars[d] = c) - 1
  ELSE -1

\* The place of the first character of s, from i on, that is not a space.
RECURSIVE skipSpaces(_, _)
skipSpaces(s, i) == IF i <= Len(s) /\ s[i] = " " THEN skipSpaces(s, i + 1) ELSE i

\* The number the digits of s from place i up to the first non-digit spell,
\* after the digits that spelt acc.
RECURSIVE leadingDigits(_, _, _)
leadingDigits(s, i, acc) ==
  IF i > Len(s) \/ DigitValue(s[i]) < 0 THEN acc
  ELSE leadingDigits(s, i + 1, acc * 10 + DigitValue(s[i]))

\* parseInt(s, 10): spaces, a sign, then digits up to the first character
\* that is no digit; NaN when there is no digit.
parseInt(s) ==
  LET start == skipSpaces(s, 1)
      signed == start <= Len(s) /\ s[start] \in {"-", "+"}
      first == IF signed THEN start + 1 ELSE start
  IN IF first > Len(s) \/ DigitValue(s[first]) < 0 THEN NaN
     ELSE IF signed /\ s[start] = "-" THEN 0 - leadingDigits(s, first, 0)
     ELSE leadingDigits(s, first, 0)

\* The plans table.
PlanRows ==
  { [id |-> 1, user_id |-> 7, name |-> "Plan A", start_date |-> Day(2025, 1, 1)],
    [id |-> 2, user_id |-> -1000, name |-> "Plan B", start_date |-> Day(2025, 6, 15)] }

\* req.userId of the requests: a signed-in user and a guest.
UserIds == {7, -1000}

\* The id parameters of the paths.
IdParams == {<<"1">>, <<"2">>, <<"x">>}

\* SELECT * FROM plans WHERE id = ? AND user_id = ?
selectPlan(planId, userId) == { row \in PlanRows : row.id = planId /\ row.user_id = userId }

\* SELECT * FROM events WHERE id = ? AND plan_id = ?
selectEvent(eventId, planId) ==
  { row \in eventRows : row.id = eventId /\ row.plan_id = planId }

validTypes == {"income", "expense", "mortgage", "mortgage_repayment", "pcp", "car_loan"}

\* The request bodies: type and data, each there or not.  The payloads are
\* of an income, of a mortgage, of a repayment against event 1 and of one
\* against event 5, and an income's with an amount of 0.  A row holds the
\* value its data text parses to.
Bodies ==
  { [type |-> t, data |-> d] :
      t \in {None} \cup { Some(x) : x \in {"income", "mortgage", "mortgage_repayment", "bonus"} },
      d \in {None} \cup
             { Some(x) : x \in
                 { EventPool[1].data, EventPool[6].data,
                   [mortgageEventId |-> 1, date |-> Day(2025, 7, 15), amount |-> Dec(2, 0)],
                   [mortgageEventId |-> 5, date |-> Day(2025, 7, 15), amount |-> Dec(2, 0)],
                   incomeData(0, FALSE, <<>>, Day(2025, 4, 5), None) } } }

\* The rows the events table may come to hold.
MaxRows == 2

\* The server before any request, and no call of the calculator.
InitServer ==
  /\ CalculatorIdle
  /\ ServerIdle

\* An answer that leaves the table as it is.
answer(status) == [status |-> status, rows |-> eventRows, rowid |-> lastInsertRowid]

\* POST /api/plans/:planId/events
post(userId, planParam, body) ==
  LET planId == parseInt(planParam) IN
  IF IsNaN(planId) THEN answer(400)
  ELSE IF selectPlan(planId, userId) = {} THEN answer(404)
  ELSE IF body.type = None \/ body.type[1] \notin validTypes THEN answer(400)
  ELSE IF body.data = None THEN answer(400)
  ELSE IF validateEventData(body.type[1], body.data[1]) # None THEN answer(400)
  ELSE [status |-> 201,
        rows   |-> eventRows \cup {[id |-> lastInsertRowid + 1, plan_id |-> planId,
                                     type |-> body.type[1], data |-> body.data[1]]},
        rowid  |-> lastInsertRowid + 1]

\* PUT /api/plans/:planId/events/:eventId
put(userId, planParam, eventParam, body) ==
  LET planId == parseInt(planParam)
      eventId == parseInt(eventParam)
      existing == selectEvent(eventId, planId)
  IN
  IF IsNaN(planId) \/ IsNaN(eventId) THEN answer(400)
  ELSE IF selectPlan(planId, userId) = {} THEN answer(404)
  ELSE IF existing = {} THEN answer(404)
  ELSE IF body.type # None /\ body.type[1] \notin validTypes THEN answer(400)
  ELSE IF body.data # None
          /\ validateEventData(IF body.type # None THEN body.type[1]
                                ELSE (CHOOSE row \in existing : TRUE).type,
                               IF body.data # None THEN body.data[1]
                                ELSE (CHOOSE row \in existing : TRUE).data) # None
    THEN answer(400)
  ELSE IF body.type = None /\ body.data = None THEN answer(400)
  ELSE [status |-> 200,
        rows   |-> { IF row \in existing
                       THEN [row EXCEPT
                               !.type = IF body.type # None THEN body.type[1] ELSE @,
                               !.data = IF body.data # None THEN body.data[1] ELSE @]
                     ELSE row : row \in eventRows },
        rowid  |-> lastInsertRowid]

\* DELETE /api/plans/:planId/events/:eventId
delete(userId, planParam, eventParam) ==
  LET planId == parseInt(planParam)
      eventId == parseInt(eventParam)
  IN
  IF IsNaN(planId) \/ IsNaN(eventId) THEN answer(400)
  ELSE IF selectPlan(planId, userId) = {} THEN answer(404)
  ELSE IF selectEvent(eventId, planId) = {} THEN answer(404)
  ELSE [status |-> 200, rows |-> eventRows \ selectEvent(eventId, planId),
        rowid |-> lastInsertRowid]

\* The table and the response after a request with this outcome.
Answered(outcome) ==
  /\ eventRows' = outcome.rows
  /\ lastInsertRowid' = outcome.rowid
  /\ response' = Some(outcome.status)
  /\ UNCHANGED <<calculator, vehicle, chart, sessions, request, conversion>>

PostEvent ==
  /\ pc = "idle"
  /\ lastInsertRowid < MaxRows
  /\ \E userId \in UserIds, planParam \in IdParams, body \in Bodies :
       Answered(post(userId, planParam, body))

PutEvent ==
  /\ pc = "idle"
  /\ \E userId \in UserIds, planParam \in IdParams, eventParam \in IdParams, body \in Bodies :
       Answered(put(userId, planParam, eventParam, body))

DeleteEvent ==
  /\ pc = "idle"
  /\ \E userId \in UserIds, planParam \in IdParams, eventParam \in IdParams :
       Answered(delete(userId, planParam, eventParam))

NextEvents == PostEvent \/ PutEvent \/ DeleteEvent

\* The longest rangeYears query parameter.
MaxQueryLen == 2

\* A chart-data request that has not been answered yet; the empty rangeYears
\* is the parameter left out.
InitChart ==
  /\ chart \in { Some([userId |-> u, id |-> i, rangeYears |-> q,
                        status |-> None, calculated |-> None]) :
                   u \in UserIds, i \in IdParams,
                   q \in UNION { [1..n -> {"0", "1", "2", "5", "-", "x"}] :
                                  n \in 0..MaxQueryLen } }
  /\ CalculatorIdle
  /\ vehicle = None
  /\ eventRows = {}
  /\ lastInsertRowid = 0
  /\ response = None
  /\ sessions = << >>
  /\ request = None
  /\ conversion = None

\* parseInt(req.query.rangeYears as string, 10) || 10
rangeYearsOf(query) ==
  IF Truthy(parseInt(query)) THEN parseInt(query) ELSE 10

\* GET /api/plans/:id/chart-data: the status of the answer and, if the
\* calculator was called, the startDate and rangeYears it was called with.
chartData(req) ==
  LET planId == parseInt(req.id)
      years == rangeYearsOf(req.rangeYears)
      planRow == selectPlan(planId, req.userId)
  IN
  IF IsNaN(planId) THEN [status |-> 400, calculated |-> None]
  ELSE IF years < 5 \/ years > 20 THEN [status |-> 400, calculated |-> None]
  ELSE IF planRow = {} THEN [status |-> 404, calculated |-> None]
  ELSE [status |-> 200,
        calculated |-> Some([startDate  |-> (CHOOSE row \in planRow : TRUE).start_date,
                             rangeYears |-> years])]

GetChartData ==
  /\ chart # None
  /\ chart[1].status = None
  /\ chart' = Some([chart[1] EXCEPT !.status = Some(chartData(chart[1]).status),
                                    !.calculated = chartData(chart[1]).calculated])
  /\ UNCHANGED <<calculator, vehicle, eventRows, lastInsertRowid, response, sessions,
                 request, conversion>>

(* ------------------------- sessions and user ids ---------------------- *)

MIN_UNAUTHENTICATED_ID == -100000000

MAX_UNAUTHENTICATED_ID == -1000

\* The ids generateUnauthenticatedUserId() may return.  randomOffset,
\* Math.floor(Math.random() * range), is any integer of 0..range-1; the model
\* draws it from both ends and from the middle.
generateUnauthenticatedUserId ==
  LET range == MAX_UNAUTHENTICATED_ID - MIN_UNAUTHENTICATED_ID + 1
  IN { MIN_UNAUTHENTICATED_ID + randomOffset :
         randomOffset \in {0, 1, range \div 2, range - 2, range - 1} }

isUnauthenticatedUserId(userId) ==
  userId >= MIN_UNAUTHENTICATED_ID /\ userId <= MAX_UNAUTHENTICATED_ID

isAuthenticatedUserId(userId) == userId > 0

\* The sessions the store may hold at a time.
MaxSessions == 2

\* The rows of the users table: the ids of the users who can sign in.
Users == {7, 8}

\* A session as express-session creates it: no userId, nobody signed in.
\* given and generated are history: the req.userId values handed to the
\* session's requests while nobody was signed in, whether one of them was
\* read back from the session, and the number of ids generated for it.
newSession == [userId |-> None, user |-> None, given |-> {}, again |-> FALSE, generated |-> 0]

\* The session with this id, created if the store has none.
sessionOf(sid) == IF sid \in DOMAIN sessions THEN sessions[sid] ELSE newSession

\* The store with session put under this id.
stored(sid, session) ==
  [x \in DOMAIN sessions \cup {sid} |-> IF x = sid THEN session ELSE sessions[x]]

\* Mutant of needsUserId: an id is generated for every request.
needsUserIdAlways(session) == TRUE

\* !req.session.userId
needsUserId(session) == session.userId = None \/ ~Truthy(session.userId[1])

\* A request of the session passes ensureUserId.
EnsureUserId ==
  /\ pc = "idle"
  /\ \E sid \in 1..MaxSessions :
       \E session \in {sessionOf(sid)} :
         IF session.user # None
           THEN /\ request' = Some([session |-> sid, authenticated |-> TRUE,
                                     user |-> session.user[1], userId |-> session.user[1]])
                /\ sessions' = stored(sid, session)
         ELSE IF needsUserId(session)
           THEN \E id \in generateUnauthenticatedUserId :
                  /\ sessions' = stored(sid, [session EXCEPT !.userId = Some(id),
                                                              !.given = @ \cup {id},
                                                              !.generated = @ + 1])
                  /\ request' = Some([session |-> sid, authenticated |-> FALSE,
                                       user |-> 0, userId |-> id])
         ELSE /\ sessions' = stored(sid, [session EXCEPT !.given = @ \cup {session.userId[1]},
                                                         !.again = TRUE])
              /\ request' = Some([session |-> sid, authenticated |-> FALSE,
                                   user |-> 0, userId |-> session.userId[1]])
  /\ UNCHANGED <<calculator, vehicle, eventRows, lastInsertRowid, response, chart,
                 conversion>>

\* GET /auth/google/callback succeeds: passport puts the user in the session.
GoogleCallback ==
  /\ pc = "idle"
  /\ \E sid \in 1..MaxSessions, user \in Users :
       /\ sessionOf(sid).user = None
       /\ sessions' = stored(sid, [sessionOf(sid) EXCEPT !.user = Some(user)])
  /\ UNCHANGED <<calculator, vehicle, eventRows, lastInsertRowid, response, chart,
                 request, conversion>>

\* POST /auth/logout: req.logout(), then req.session.destroy().
Logout ==
  /\ pc = "idle"
  /\ \E sid \in DOMAIN sessions :
       /\ sessions' = [x \in DOMAIN sessions \ {sid} |-> sessions[x]]
       /\ request' = IF request # None /\ request[1].session = sid THEN None ELSE request
  /\ UNCHANGED <<calculator, vehicle, eventRows, lastInsertRowid, response, chart,
                 conversion>>

NextSessions == EnsureUserId \/ GoogleCallback \/ Logout

(* --------------------------- rows and objects ------------------------- *)

\* JSON values: a number (times Scale), a string, a boolean (1 for true),
\* null, and an array of month numbers known by its elements.
JValue(kind, num, str) == [kind |-> kind, num |-> num, str |-> str]

\* The JSON literals of the model: each text, the value JSON.parse reads it
\* as, and whether it is the text JSON.stringify writes for that value.
Literals ==
  { [text |-> "5000",           value |-> JValue("number", Dec(5000, 0), ""), written |-> TRUE],
    [text |-> "5000.0",         value |-> JValue("number", Dec(5000, 0), ""), written |-> FALSE],
    [text |-> "5e3",            value |-> JValue("number", Dec(5000, 0), ""), written |-> FALSE],
    [text |-> "0.5",            value |-> JValue("number", Dec(0, 5000), ""), written |-> TRUE],
    [text |-> "5e-1",           value |-> JValue("number", Dec(0, 5000), ""), written |-> FALSE],
    [text |-> "true",           value |-> JValue("boolean", 1, ""),        written |-> TRUE],
    [text |-> "null",           value |-> JValue("null", 0, ""),                 written |-> TRUE],
    [text |-> "\"2025-01-01\"", value |-> JValue("string", 0, "2025-01-01"), written |-> TRUE],
    [text |-> "[1,6,12]",       value |-> JValue("array", 0, "1,6,12"),      written |-> TRUE],
    [text |-> "[1, 6, 12]",     value |-> JValue("array", 0, "1,6,12"),      written |-> FALSE] }

\* The value of a literal, and the literal written for a value.
parseLiteral(text) == (CHOOSE l \in Literals : l.text = text).value

stringifyValue(value) == (CHOOSE l \in Literals : l.value = value /\ l.written).text

\* The text of a JSON object is the sequence of its members, each a key and
\* a literal.  JSON.parse: the object of the keys, each with the value of
\* the last member that has the key.
JSONparse(text) ==
  [key \in { text[i].key : i \in DOMAIN text } |->
     parseLiteral(text[CHOOSE i \in DOMAIN text :
                         /\ text[i].key = key
                         /\ \A j \in DOMAIN text : text[j].key = key => j <= i].literal)]

\* The keys of an object, one after another.
keysOf(object) ==
  CHOOSE keys \in [1..Cardinality(DOMAIN object) -> DOMAIN object] :
    \A i, j \in DOMAIN keys : i # j => keys[i] # keys[j]

\* Mutant of JSONstringify: members that are null are left out.
JSONstringifyNoNull(object) ==
  LET keys == keysOf([key \in { k \in DOMAIN object : object[k] # JValue("null", 0, "") } |-> object[key]])
  IN [i \in DOMAIN keys |-> [key |-> keys[i], literal |-> stringifyValue(object[keys[i]])]]

\* JSON.stringify: a member for every key of the object.
JSONstringify(object) ==
  LET keys == keysOf(object)
  IN [i \in DOMAIN keys |-> [key |-> keys[i], literal |-> stringifyValue(object[keys[i]])]]

rowToEvent(row) ==
  [id |-> row.id, planId |-> row.plan_id, type |-> row.type,
   createdAt |-> row.created_at, updatedAt |-> row.updated_at,
   data |-> JSONparse(row.data)]

eventToRow(event) ==
  [plan_id |-> event.planId, type |-> event.type, data |-> JSONstringify(event.data)]

rowToPlan(row) ==
  [id |-> row.id, userId |-> row.user_id, name |-> row.name, startDate |-> row.start_date,
   createdAt |-> row.created_at, updatedAt |-> row.updated_at]

planToRow(plan) ==
  [user_id |-> plan.userId, name |-> plan.name, start_date |-> plan.startDate]

\* The members a data text may have.
MaxMembers == 2

\* The data texts of the event rows.
DataTexts ==
  UNION { [1..n -> { [key |-> k, literal |-> l.text] :
                        k \in {"amount", "endDate"}, l \in Literals }] :
            n \in 0..MaxMembers }

\* A row of the events table or of the plans table about to go through the
\* converters.
InitConversion ==
  /\ conversion \in
       { Some([table |-> "events", result |-> None,
               row |-> [id |-> 1, plan_id |-> p, type |-> t, data |-> d,
                        created_at |-> "2025-01-01T00:00:00Z",
                        updated_at |-> "2025-01-02T00:00:00Z"]]) :
           p \in {10, 11}, t \in {"income", "mortgage_repayment"}, d \in DataTexts }
       \cup
       { Some([table |-> "plans", result |-> None,
               row |-> [id |-> 1, user_id |-> u, name |-> n, start_date |-> d,
                        created_at |-> "2025-01-01T00:00:00Z",
                        updated_at |-> "2025-01-02T00:00:00Z"]]) :
           u \in {100, -1000}, n \in {"Test Plan", ""}, d \in {"2025-01-01", "2025-06-15"} }
  /\ CalculatorIdle
  /\ vehicle = None
  /\ eventRows = {}
  /\ lastInsertRowid = 0
  /\ response = None
  /\ chart = None
  /\ sessions = << >>
  /\ request = None

\* eventToRow(rowToEvent(row))
ConvertEvent ==
  /\ conversion # None
  /\ conversion[1].table = "events"
  /\ conversion[1].result = None
  /\ conversion' = Some([conversion[1] EXCEPT
                           !.result = Some(eventToRow(rowToEvent(conversion[1].row)))])
  /\ UNCHANGED <<calculator, vehicle, eventRows, lastInsertRowid, response, chart,
                 sessions, request>>

\* planToRow(rowToPlan(row))
ConvertPlan ==
  /\ conversion # None
  /\ conversion[1].table = "plans"
  /\ conversion[1].result = None
  /\ conversion' = Some([conversion[1] EXCEPT
                           !.result = Some(planToRow(rowToPlan(conversion[1].row)))])
  /\ UNCHANGED <<calculator, vehicle, eventRows, lastInsertRowid, response, chart,
                 sessions, request>>

NextConversion == ConvertEvent \/ ConvertPlan

Next == ProcessMonth \/ Return

\* A call that may throw.
NextOrThrow == ProcessMonth \/ Throw \/ Return

\* Calls one after another.
NextRepeat == ProcessMonth \/ Return \/ CallAgain

\* Calls on lists that mix the types of event.
Spec == Init /\ [][Next]_vars

\* Calls on lists of income and expense events.
SpecIncomeExpense == InitIncomeExpense /\ [][Next]_vars

\* Calls on lists of mortgages, repayments and an income.
SpecMortgage == InitMortgage /\ [][Next]_vars

\* Calls on lists of a mortgage, repayments against it and an income.
SpecRepayment == InitRepayment /\ [][Next]_vars

\* Calls on lists of mortgages, PCPs and car loans.
SpecFinancing == InitFinancing /\ [][Next]_vars

\* Calls on lists of PCP and car-loan events.
SpecCar == InitCar /\ [][Next]_vars

\* Calls with any arguments on lists that hold unknown and malformed events.
SpecAnyArguments == InitAnyArguments /\ [][NextOrThrow]_vars

\* Calls one after another on one instance.
SpecRepeat == InitRepeat /\ [][NextRepeat]_vars

\* Calls of calculateCarDepreciation.
SpecDepreciation == InitDepreciation /\ [][Depreciate]_vars

\* A financed car, month after month of its term.
SpecVehicle == InitVehicle /\ [][DepreciateMonth]_vars

\* Requests to the events router, one after another.
SpecEvents == InitServer /\ [][NextEvents]_vars

\* Chart-data requests.
SpecChart == InitChart /\ [][GetChartData]_vars

\* Requests, sign-ins and sign-outs in the sessions of the store.
SpecSessions == InitServer /\ [][NextSessions]_vars

\* Rows through the converters and back.
SpecConversion == InitConversion /\ [][NextConversion]_vars

(* ------------------------------- claims ------------------------------- *)

\* The month index (year*12 + month-1) of an ISO date string.
MonthOf(s) == s.y * 12 + (s.m - 1)

\* The first day of the month n months after the month of the ISO date s.
FirstDayAfter(s, n) ==
  LET t == MonthOf(s) + n IN Day(t \div 12, (t % 12) + 1, 1)

\* The calendar month the last pass of the month loop was for.
lastMonth == startMonth.mi + monthIndex - 1

\* C1: the point emitted for a month is the 2-decimal rounding of the exact
\* sum of every event's deltas over the months so far, and the running totals
\* are that exact sum: they are neither reset between months nor replaced by
\* the rounded value.
C1_EmittedIsRoundedExactSum ==
  /\ currentLiquidity = sumLiquidity
  /\ currentAssets = sumAssets
  /\ monthIndex > 0 =>
       /\ Len(dataPoints) = monthIndex
       /\ dataPoints[monthIndex].liquidity = Round2(sumLiquidity)
       /\ dataPoints[monthIndex].assets = Round2(sumAssets)

\* C1 witness: a second or later point whose exact sum has more than two
\* decimals, after a first point that was already rounded.
C1_Witness ==
  /\ monthIndex >= 2
  /\ ~IsNaN(sumLiquidity)
  /\ Round2(sumLiquidity) # sumLiquidity
  /\ dataPoints[monthIndex - 1].liquidity # 0
  /\ dataPoints[monthIndex].liquidity = Round2(sumLiquidity)

\* C2: the call returns exactly rangeYears * 12 data points.
C2_PointCount == pc = "done" => Len(dataPoints) = rangeYears * 12

\* C2 witness: a call with the largest rangeYears has returned.
C2_Witness ==
  pc = "done" /\ rangeYears = MaxRangeYears /\ Len(events) > 0
  /\ Len(dataPoints) = MaxRangeYears * 12

\* C3: point i is dated the first day of the month i months after the month
\* of startDate, for a startDate passed as a string or as a Date object.
C3_MonthsFollowStartDate ==
  \A i \in 1..Len(dataPoints) : dataPoints[i].month = FirstDayAfter(startDate.iso, i - 1)

(* Income and expense events, stated on month indices. *)

IsIncomeOrExpense(e) == e.type \in {"income", "expense"}

\* +amount for an income, -amount for an expense.
Signed(e) == IF e.type = "income" THEN e.data.amount ELSE 0 - e.data.amount

StartsAt(e) == MonthOf(e.data.startDate)

HasEnd(e) == e.data.endDate # None

EndsAt(e) == MonthOf(e.data.endDate[1])

\* Month cm is in the event's [start month, end month] window.
InWindow(e, cm) == cm >= StartsAt(e) /\ (HasEnd(e) => cm <= EndsAt(e))

\* Month cm is one the event pays in.
Contributes(e, cm) ==
  /\ InWindow(e, cm)
  /\ IF e.data.isRecurrent
       THEN e.data.months = <<>> \/ \E j \in DOMAIN e.data.months : e.data.months[j] = (cm % 12) + 1
       ELSE cm = StartsAt(e)

\* The number of months the event pays in among the first n of the horizon.
ContributingMonths(e, n) ==
  Cardinality({ m \in 0..(n - 1) : Contributes(e, startMonth.mi + m) })

\* C4: an income or expense contributes zero in every month before its start
\* month and in every month after its end month; a recurrent one has, at every
\* point, contributed its amount once for each month of its schedule since its
\* start month (no gap, nothing counted twice), and alone in the list leaves
\* the points before its start month at 0.
C4_GatedByWindow ==
  monthIndex > 0 =>
    \A k \in DOMAIN events :
      LET e == events[k] IN
      IsIncomeOrExpense(e) =>
        /\ lastMonth < StartsAt(e) =>
             deltas[k].liquidityDelta = 0 /\ deltas[k].assetsDelta = 0
        /\ (HasEnd(e) /\ lastMonth > EndsAt(e)) =>
             deltas[k].liquidityDelta = 0 /\ deltas[k].assetsDelta = 0
        /\ e.data.isRecurrent =>
             /\ history[k].months = ContributingMonths(e, monthIndex)
             /\ history[k].liquidity = Signed(e) * ContributingMonths(e, monthIndex)
             /\ Len(events) = 1 =>
                  \A i \in 1..Len(dataPoints) :
                    startMonth.mi + i - 1 < StartsAt(e) => dataPoints[i].liquidity = 0

\* C4 witness: a recurrent event that started after the anchor has paid in
\* each of the months since, the first point being 0.
C4_Witness ==
  /\ Len(events) = 1 /\ IsIncomeOrExpense(events[1]) /\ events[1].data.isRecurrent
  /\ events[1].data.months = <<>>
  /\ StartsAt(events[1]) > startMonth.mi
  /\ lastMonth >= StartsAt(events[1]) + 2
  /\ history[1].months = lastMonth - StartsAt(events[1]) + 1
  /\ dataPoints[1].liquidity = 0
  /\ deltas[1].liquidityDelta = Signed(events[1])

\* A one-off event, alone in the list: every point before its start month is
\* 0 and every point from it on is its amount.
OneOffCarried(e) ==
  \A i \in 1..Len(dataPoints) :
    dataPoints[i].liquidity =
      IF StartsAt(e) >= startMonth.mi /\ startMonth.mi + i - 1 >= StartsAt(e)
        THEN Round2(Signed(e)) ELSE 0

\* What C5 says of the one-off event at place k.
OneOffOnce(k) ==
  LET e == events[k] IN
  /\ monthIndex > 0 =>
       /\ deltas[k].liquidityDelta = (IF lastMonth = StartsAt(e) THEN Signed(e) ELSE 0)
       /\ deltas[k].assetsDelta = 0
  /\ (pc = "done" /\ StartsAt(e) >= startMonth.mi /\ StartsAt(e) < startMonth.mi + totalMonths) =>
       history[k].months = 1 /\ history[k].liquidity = Signed(e)
  /\ Len(events) = 1 => OneOffCarried(e)

\* C5 as stated: every one-off income or expense whose start month is in the
\* horizon contributes its amount in its start month and in no other month.
C5_OneOffOnce_Original ==
  \A k \in DOMAIN events :
    (IsIncomeOrExpense(events[k]) /\ ~events[k].data.isRecurrent) => OneOffOnce(k)

\* C5, amended: the same of every one-off event whose endDate, if it has
\* one, is not in a month before its start month.
C5_OneOffOnce ==
  \A k \in DOMAIN events :
    (/\ IsIncomeOrExpense(events[k]) /\ ~events[k].data.isRecurrent
     /\ HasEnd(events[k]) => EndsAt(events[k]) >= StartsAt(events[k])) => OneOffOnce(k)

\* C5 witness: a call has returned whose only event is a one-off that paid
\* in its start month, inside the horizon, and the last point still shows it.
C5_Witness ==
  /\ pc = "done" /\ Len(events) = 1
  /\ IsIncomeOrExpense(events[1]) /\ ~events[1].data.isRecurrent
  /\ StartsAt(events[1]) > startMonth.mi /\ StartsAt(events[1]) < lastMonth
  /\ history[1].months = 1
  /\ dataPoints[Len(dataPoints)].liquidity = Round2(Signed(events[1]))
  /\ dataPoints[1].liquidity = 0

\* C6: in a month of its window a recurrent income or expense contributes its
\* amount if its months set is empty or holds the month's calendar number,
\* and zero otherwise.
C6_RecurrentByMonthNumber ==
  monthIndex > 0 =>
    \A k \in DOMAIN events :
      LET e == events[k] IN
      (IsIncomeOrExpense(e) /\ e.data.isRecurrent /\ InWindow(e, lastMonth)) =>
        /\ deltas[k].assetsDelta = 0
        /\ deltas[k].liquidityDelta =
             IF e.data.months = <<>>
                \/ \E j \in DOMAIN e.data.months : e.data.months[j] = (lastMonth % 12) + 1
               THEN Signed(e) ELSE 0

\* C6 witness: an event with a months set pays in a month of the set, having
\* skipped the month before.
C6_Witness ==
  /\ monthIndex > 1
  /\ \E k \in DOMAIN events :
       /\ IsIncomeOrExpense(events[k]) /\ events[k].data.isRecurrent
       /\ events[k].data.months # <<>>
       /\ InWindow(events[k], lastMonth) /\ InWindow(events[k], lastMonth - 1)
       /\ deltas[k].liquidityDelta = Signed(events[k])
       /\ ~Contributes(events[k], lastMonth - 1)

RECURSIVE ExpectedTotal(_, _)
\* The amounts of the first k events, each times the months it pays in among
\* the first n of the horizon.
ExpectedTotal(k, n) ==
  IF k = 0 THEN 0
  ELSE ExpectedTotal(k - 1, n) + Signed(events[k]) * ContributingMonths(events[k], n)

\* C7: on a list of income and expense events assets is 0 at every point and
\* the liquidity after n months is the incomes' amounts minus the expenses'
\* amounts over the months each pays in, so that a month changes it by the
\* amounts of the events paying in that month; an expense contributes the
\* negation of what an income with its payload contributes.
C7_IncomesMinusExpenses ==
  (\A k \in DOMAIN events : IsIncomeOrExpense(events[k])) =>
    /\ currentAssets = 0
    /\ \A i \in 1..Len(dataPoints) : dataPoints[i].assets = 0
    /\ currentLiquidity = ExpectedTotal(Len(events), monthIndex)
    /\ monthIndex > 0 =>
         /\ SumField(deltas, "liquidityDelta", 0) =
              ExpectedTotal(Len(events), monthIndex) - ExpectedTotal(Len(events), monthIndex - 1)
         /\ \A k \in DOMAIN events :
              events[k].type = "expense" =>
                deltas[k].liquidityDelta =
                  0 - calculateIncomeDelta(events[k], addMonths(startMonth, monthIndex - 1)).liquidityDelta

\* C7 witness: an income and an expense of different amounts both pay in the
\* same month.
C7_Witness ==
  /\ Len(events) = 2 /\ monthIndex > 1
  /\ events[1].type = "income" /\ events[2].type = "expense"
  /\ deltas[1].liquidityDelta > 0 /\ deltas[2].liquidityDelta < 0
  /\ deltas[1].liquidityDelta + deltas[2].liquidityDelta # 0
  /\ currentLiquidity # 0

(* Mortgages and repayments, stated on month indices. *)

\* a < b as the code's numbers compare: false when either is NaN.
FLess(a, b) == ~IsNaN(a) /\ ~IsNaN(b) /\ a < b

\* The last month of a mortgage's term.
TermEnd(e) == StartsAt(e) + e.data.years * 12

\* The list holds a repayment against the mortgage with this id.
HasRepayment(id) ==
  \E j \in DOMAIN events :
    events[j].type = "mortgage_repayment" /\ events[j].data.mortgageEventId = id

\* Two balance maps agree on a key: both lack it, or both hold the same value.
SameEntry(m1, m2, key) ==
  /\ key \in DOMAIN m1 <=> key \in DOMAIN m2
  /\ key \in DOMAIN m1 => m1[key] = m2[key]

\* C8: a mortgage whose start month is in the horizon has, in its start month,
\* an assets delta of purchasePrice - loanedAmount and a liquidity delta of 0,
\* and in every later month of its term a strictly negative liquidity delta
\* and cumulative assets strictly above the initial deposit.
C8_MortgageFirstAndLaterMonths ==
  monthIndex > 0 =>
    \A k \in DOMAIN events :
      LET e == events[k] IN
      (e.type = "mortgage" /\ StartsAt(e) >= startMonth.mi) =>
        /\ lastMonth = StartsAt(e) =>
             /\ deltas[k].assetsDelta = e.data.purchasePrice - e.data.loanedAmount
             /\ deltas[k].liquidityDelta = 0
        /\ (lastMonth > StartsAt(e) /\ lastMonth <= TermEnd(e)) =>
             /\ FLess(deltas[k].liquidityDelta, 0)
             /\ FLess(e.data.purchasePrice - e.data.loanedAmount, history[k].assets)

\* C9: outside [start month, start month + years*12] a mortgage contributes
\* zero and returns no new balance, so that its tracked balance stays as it
\* was (in a list with no repayment against it); its start month is followed
\* by payment months up to the end of the term, years*12 of them once the
\* term has passed inside the horizon, whatever the day of its startDate.
C9_MortgageWindow ==
  monthIndex > 0 =>
    \A k \in DOMAIN events :
      LET e == events[k] IN
      e.type = "mortgage" =>
        /\ (lastMonth < StartsAt(e) \/ lastMonth > TermEnd(e)) =>
             /\ deltas[k] = ZeroDelta
             /\ ~HasRepayment(e.id) => SameEntry(prevBalances, mortgageBalances, e.id)
        /\ lastMonth = StartsAt(e) =>
             deltas[k].liquidityDelta = 0 /\ deltas[k].newBalance # None
        /\ (lastMonth > StartsAt(e) /\ lastMonth <= TermEnd(e)) =>
             deltas[k].liquidityDelta # 0 /\ deltas[k].newBalance # None
        /\ (StartsAt(e) >= startMonth.mi /\ lastMonth >= TermEnd(e)) =>
             history[k].months = e.data.years * 12

\* C9 witness: a mortgage that started on a day other than the first, after
\* the anchor, is past its term: it paid in years*12 months, and the month
\* just processed left its balance alone.
C9_Witness ==
  /\ monthIndex > 0
  /\ \E k \in DOMAIN events :
       /\ events[k].type = "mortgage" /\ events[k].data.startDate.d > 1
       /\ StartsAt(events[k]) > startMonth.mi
       /\ lastMonth > TermEnd(events[k])
       /\ history[k].months = events[k].data.years * 12
       /\ deltas[k] = ZeroDelta
       /\ events[k].id \in DOMAIN mortgageBalances
       /\ SameEntry(prevBalances, mortgageBalances, events[k].id)

\* The month of a repayment's date.
PaidAt(e) == MonthOf(e.data.date)

\* C10: a mortgage_repayment contributes in the month of its date only, once
\* if that month is in the horizon; it then lowers liquidity by its amount
\* and raises assets by the same amount, so that what it adds to liquidity
\* plus assets is 0.
C10_RepaymentInItsMonth ==
  \A k \in DOMAIN events :
    LET e == events[k] IN
    e.type = "mortgage_repayment" =>
      /\ monthIndex > 0 =>
           /\ deltas[k].liquidityDelta = (IF lastMonth = PaidAt(e) THEN 0 - e.data.amount ELSE 0)
           /\ deltas[k].assetsDelta = (IF lastMonth = PaidAt(e) THEN e.data.amount ELSE 0)
      /\ history[k].liquidity + history[k].assets = 0
      /\ history[k].months =
           (IF PaidAt(e) >= startMonth.mi /\ PaidAt(e) < startMonth.mi + monthIndex THEN 1 ELSE 0)
      /\ (\A j \in DOMAIN events : events[j].type = "mortgage_repayment") =>
           currentLiquidity + currentAssets = 0

\* C10 witness: the month of a repayment's date has just been processed and
\* the repayment was paid in it, for the first time.
C10_Witness ==
  /\ monthIndex > 1
  /\ \E k \in DOMAIN events :
       /\ events[k].type = "mortgage_repayment"
       /\ lastMonth = PaidAt(events[k])
       /\ deltas[k].liquidityDelta = 0 - events[k].data.amount
       /\ deltas[k].assetsDelta = events[k].data.amount
       /\ history[k].months = 1

(* Repayments against a mortgage of the list. *)

\* The totals and maps of the month loop just before the k-th event of the
\* month just processed was visited.
BeforeEvent(k) ==
  processEvents(SubSeq(events, 1, k - 1), 1, addMonths(startMonth, monthIndex - 1),
                [initialState EXCEPT !.mortgageBalances = prevBalances,
                                     !.carLoanBalances = prevCarBalances])

\* A repayment against the mortgage with this id has triggered: in an earlier
\* month, or in the month just processed before the j-th event was visited.
RepaidBefore(id, j) ==
  \E r \in DOMAIN events :
    /\ events[r].type = "mortgage_repayment" /\ events[r].data.mortgageEventId = id
    /\ PaidAt(events[r]) >= startMonth.mi
    /\ PaidAt(events[r]) < lastMonth \/ (PaidAt(events[r]) = lastMonth /\ r < j)

\* The amortized payment and the monthly rate of a mortgage.
AmortizedOf(e) ==
  annuityPayment(FMul(e.data.loanedAmount, e.data.repaymentPercentage),
                 FDiv(e.data.interestRate, 12 * Scale), e.data.years * 12)

MonthlyRateOf(e) == FDiv(e.data.interestRate, 12 * Scale)

\* C11: a repayment of amount a that triggers while the mortgage's tracked
\* balance is b leaves the tracked balance at max(0, b - a); the mortgage's
\* payments after it take their interest portion on the tracked balance, so
\* that a balance of 0 (a >= b) is still 0 after every later payment.
C11_RepaymentLowersTrackedBalance ==
  monthIndex > 0 =>
    \A k \in DOMAIN events :
      LET e == events[k] IN
      /\ (e.type = "mortgage_repayment" /\ lastMonth = PaidAt(e)
            /\ e.data.mortgageEventId \in DOMAIN BeforeEvent(k).mortgageBalances) =>
           BeforeEvent(k + 1).mortgageBalances[e.data.mortgageEventId] =
             MathMax0(FSub(BeforeEvent(k).mortgageBalances[e.data.mortgageEventId],
                           e.data.amount))
      /\ (e.type = "mortgage" /\ lastMonth > StartsAt(e) /\ lastMonth <= TermEnd(e)
            /\ e.id \in DOMAIN BeforeEvent(k).mortgageBalances
            /\ RepaidBefore(e.id, k)) =>
           LET b == BeforeEvent(k).mortgageBalances[e.id] IN
           /\ deltas[k].assetsDelta = FSub(AmortizedOf(e), FMul(b, MonthlyRateOf(e)))
           /\ b = 0 => BeforeEvent(k + 1).mortgageBalances[e.id] = 0

(* The order of the event list. *)

\* The lists that hold the events of seq in any order.
Reorderings(seq) ==
  { [i \in DOMAIN seq |-> seq[f[i]]] :
      f \in { g \in [DOMAIN seq -> DOMAIN seq] :
                \A a, b \in DOMAIN seq : a # b => g[a] # g[b] } }

\* Every order of the event list gives the series the call returned.
SameInAnyOrder ==
  \A p \in Reorderings(events) :
    calculateLiquidityAndAssets(p, startDate, rangeYears, tz) =
      [raised |-> FALSE, points |-> dataPoints]

\* The list holds a repayment together with the mortgage it references.
RepaymentMeetsMortgage ==
  \E j, k \in DOMAIN events :
    /\ events[j].type = "mortgage" /\ events[k].type = "mortgage_repayment"
    /\ events[k].data.mortgageEventId = events[j].id

IsCar(e) == e.type \in {"pcp", "car_loan"}

\* The delta of the purchase month.
PurchaseDelta(e) ==
  [liquidityDelta |-> 0 - e.data.deposit,
   assetsDelta    |-> e.data.purchasePrice - e.data.deposit,
   newBalance     |-> IF e.type = "car_loan"
                        THEN Some(e.data.purchasePrice - e.data.deposit) ELSE None]

\* The regular monthly payment: the annuity on what is financed.
RegularPayment(e) ==
  annuityPayment(IF e.type = "pcp"
                   THEN e.data.purchasePrice - e.data.deposit - e.data.residualValue
                   ELSE e.data.purchasePrice - e.data.deposit,
                 FDiv(e.data.interestRate, 12 * Scale), e.data.years * 12)

\* The first month after the term of a car event.
CarTermEnd(e) == StartsAt(e) + e.data.years * 12

\* C13: a PCP or car loan whose start month is in the horizon has the
\* purchase-month effect (liquidity -deposit, assets +(purchasePrice -
\* deposit), a car loan's balance seeded) in the calendar month of its
\* startDate and in no other month, whatever the day of startDate, and is
\* charged its first regular payment in the month after.
C13_PurchaseMonthOnce ==
  monthIndex > 0 =>
    \A k \in DOMAIN events :
      LET e == events[k] IN
      (IsCar(e) /\ StartsAt(e) >= startMonth.mi) =>
        /\ lastMonth = StartsAt(e) => deltas[k] = PurchaseDelta(e)
        /\ lastMonth # StartsAt(e) => deltas[k] # PurchaseDelta(e)
        /\ lastMonth = StartsAt(e) + 1 =>
             deltas[k].liquidityDelta = FNeg(RegularPayment(e))

\* C14: a PCP or car loan contributes zero, and a car loan's tracked balance
\* stays as it was, in every month before its purchase month and in every
\* month from years*12 months after it on; once its term has passed inside
\* the horizon it has paid in years*12 months, the deposit in the purchase
\* month and the regular payment in each of the years*12 - 1 months after it.
C14_CarTerm ==
  monthIndex > 0 =>
    \A k \in DOMAIN events :
      LET e == events[k] IN
      IsCar(e) =>
        /\ (lastMonth < StartsAt(e) \/ lastMonth >= CarTermEnd(e)) =>
             /\ deltas[k] = ZeroDelta
             /\ e.type = "car_loan" => SameEntry(prevCarBalances, carLoanBalances, e.id)
        /\ (StartsAt(e) >= startMonth.mi /\ lastMonth >= CarTermEnd(e) - 1) =>
             /\ history[k].months = e.data.years * 12
             /\ history[k].liquidity =
                  0 - e.data.deposit - (e.data.years * 12 - 1) * RegularPayment(e)

(* Car depreciation. *)

\* C15: calculateCarDepreciation(purchasePrice, m) is 2% of purchasePrice for
\* 0 <= m < 24, 1.2% of it for 24 <= m < 48 and 1% of it for m >= 48, and is
\* never negative.
C15_DepreciationBands ==
  (depreciation # None /\ depreciation[1].result # None) =>
    LET price  == depreciation[1].purchasePrice
        m      == depreciation[1].monthsSincePurchase
        result == depreciation[1].result[1]
    IN /\ m < 24 => result * 100 = price * 2
       /\ (m >= 24 /\ m < 48) => result * 1000 = price * 12
       /\ m >= 48 => result * 100 = price
       /\ result >= 0

\* C15 witness: the depreciation of a car of 24 months, the first month of
\* the second band, has been computed and is 1.2% of a positive price.
C15_Witness ==
  /\ depreciation # None /\ depreciation[1].result # None
  /\ depreciation[1].monthsSincePurchase = 24
  /\ depreciation[1].purchasePrice > 0
  /\ depreciation[1].result[1] * 1000 = depreciation[1].purchasePrice * 12

(* Unknown types, invalid arguments, malformed payloads. *)

IsUnknown(e) == e.type \notin RecognizedTypes

OnlyUnknown == \A k \in DOMAIN events : IsUnknown(events[k])

ValidArguments == rangeYears > 0 /\ IsValid(planStartDate)

\* How the call ended: what it returned, or that it raised.
Outcome == [raised |-> pc = "raised", points |-> IF pc = "raised" THEN << >> ELSE dataPoints]

\* C16: an event of none of the six recognized types has a zero delta in
\* every month; a call on a list of such events alone ends as the call on
\* the empty list does, and for valid arguments it raises no error and
\* returns rangeYears * 12 points, all with liquidity = assets = 0.
C16_UnknownTypeIsZero ==
  /\ monthIndex > 0 =>
       \A k \in DOMAIN events : IsUnknown(events[k]) => deltas[k] = ZeroDelta
  /\ (OnlyUnknown /\ pc \in {"done", "raised"}) =>
       Outcome = calculateLiquidityAndAssets(<< >>, startDate, rangeYears, tz)
  /\ (OnlyUnknown /\ ValidArguments) =>
       /\ pc # "raised"
       /\ pc = "done" => Len(dataPoints) = rangeYears * 12
       /\ \A i \in 1..Len(dataPoints) :
            dataPoints[i].liquidity = 0 /\ dataPoints[i].assets = 0

\* C16 witness: a call on two events of unknown types, one with a payload and
\* one without, has returned its series of zeros.
C16_Witness ==
  /\ pc = "done" /\ Len(events) = 2 /\ OnlyUnknown /\ ValidArguments
  /\ \E k \in DOMAIN events : "data" \in DOMAIN events[k]
  /\ \E k \in DOMAIN events : "data" \notin DOMAIN events[k]
  /\ Len(dataPoints) = rangeYears * 12
  /\ dataPoints[Len(dataPoints)].liquidity = 0

\* C17: a call with a rangeYears that is not positive, or with a startDate
\* that is no calendar date, does not return a series: it raises.
C17_InvalidArgumentsRaise == ~ValidArguments => pc # "done"

\* C18: a call with valid arguments never raises, whatever the events.
C18_NeverRaisesOnEvents == ValidArguments => pc # "raised"

(* Calls one after another. *)

\* The call under way has the arguments of the first call that returned.
SameAsEarlier ==
  /\ earlier # None
  /\ events = earlier[1].call.events
  /\ rangeYears = earlier[1].call.rangeYears

\* C19: a call returns what an earlier call with the same arguments returned,
\* whatever calls were made in between: each call starts with maps of its
\* own, empty, and ends as the function of its arguments alone does.
C19_SameInputsSameOutput ==
  /\ (pc = "loop" /\ monthIndex = 0) =>
       mortgageBalances = << >> /\ carLoanBalances = << >> /\ carPurchaseDates = << >>
  /\ pc = "done" =>
       /\ SameAsEarlier => dataPoints = earlier[1].call.points
       /\ dataPoints = calculateLiquidityAndAssets(events, startDate, rangeYears, tz).points

\* C19 witness: a call on a mortgage, a repayment or a car loan has returned
\* what the first call returned, after a call with other arguments in between.
C19_Witness ==
  /\ pc = "done" /\ SameAsEarlier /\ earlier[1].between
  /\ Len(events) = 2
  /\ mortgageBalances # << >> /\ carLoanBalances # << >>
  /\ dataPoints = earlier[1].call.points
  /\ dataPoints[Len(dataPoints)].assets # 0

(* The range of the tracked balances. *)

\* 0 <= b <= limit, as the code's numbers compare: false when b is NaN.
Within(b, limit) == ~IsNaN(b) /\ ~IsNaN(limit) /\ 0 <= b /\ b <= limit

\* C20: after every month the tracked balance of each mortgage of the list
\* is between 0 and loanedAmount * repaymentPercentage, and the tracked
\* balance of each car loan between 0 and purchasePrice - deposit.
C20_BalancesInRange ==
  \A k \in DOMAIN events :
    LET e == events[k] IN
    /\ (e.type = "mortgage" /\ e.id \in DOMAIN mortgageBalances) =>
         Within(mortgageBalances[e.id], FMul(e.data.loanedAmount, e.data.repaymentPercentage))
    /\ (e.type = "car_loan" /\ e.id \in DOMAIN carLoanBalances) =>
         Within(carLoanBalances[e.id], e.data.purchasePrice - e.data.deposit)

(* Finite values. *)

\* C21: every emitted liquidity and assets value is a finite number.
C21_EmittedValuesFinite ==
  \A i \in 1..Len(dataPoints) :
    ~IsNaN(dataPoints[i].liquidity) /\ ~IsNaN(dataPoints[i].assets)

(* The assets a mortgage accumulates. *)

\* The assets credited so far by the repayments, from the j-th event of the
\* list on, that reference the mortgage with this id.
RECURSIVE RepaymentAssetsFrom(_, _)
RepaymentAssetsFrom(id, j) ==
  IF j > Len(events) THEN 0
  ELSE FAdd(IF events[j].type = "mortgage_repayment" /\ events[j].data.mortgageEventId = id
              THEN history[j].assets ELSE 0,
            RepaymentAssetsFrom(id, j + 1))

\* The assets credited so far by the k-th event, a mortgage, and by the
\* repayments that reference it: the deposit, the principal portions and
\* the lump sums.
CumulativeAssets(k) == FAdd(history[k].assets, RepaymentAssetsFrom(events[k].id, 1))

\* What the sum of a term's principal portions may differ by from the
\* principal in this arithmetic of four decimals: half a cent a month.
RoundingSlack == Dec(0, 600)

\* C27: the assets a mortgage and the repayments that reference it have
\* contributed so far never exceed the mortgage's purchasePrice (by more than
\* the rounding of the arithmetic).
C27_AssetsWithinPurchasePrice ==
  \A k \in DOMAIN events :
    events[k].type = "mortgage" =>
      CumulativeAssets(k) <= events[k].data.purchasePrice + RoundingSlack

(* Financing events. *)

IsFinancing(e) == e.type \in {"mortgage", "pcp", "car_loan"}

\* C29: a mortgage, PCP or car loan whose payload validateEventData accepts
\* and whose interestRate is positive has a liquidity delta <= 0 in every
\* month.
C29_FinancingNeverAddsCash ==
  monthIndex > 0 =>
    \A k \in DOMAIN events :
      LET e == events[k] IN
      (IsFinancing(e) /\ validateEventData(e.type, e.data) = None
         /\ e.data.interestRate > 0) =>
        deltas[k].liquidityDelta <= 0

\* The principal a financing event's tracked balance starts from.
InitialPrincipal(e) ==
  IF e.type = "mortgage" THEN FMul(e.data.loanedAmount, e.data.repaymentPercentage)
  ELSE e.data.purchasePrice - e.data.deposit

\* The part of the monthly payment that pays the tracked balance off.
BalancePayment(e) == IF e.type = "mortgage" THEN AmortizedOf(e) ELSE RegularPayment(e)

\* The monthly payment of a financing event.
MonthlyPayment(e) ==
  IF e.type = "mortgage"
    THEN FAdd(FMul(FMul(e.data.loanedAmount, FSub(Scale, e.data.repaymentPercentage)),
                   MonthlyRateOf(e)),
              AmortizedOf(e))
  ELSE RegularPayment(e)

\* The month is a payment month of the financing event: after its start
\* month and inside its term.
InTerm(e, month) ==
  /\ month > StartsAt(e)
  /\ IF e.type = "mortgage" THEN month <= TermEnd(e) ELSE month < CarTermEnd(e)

\* The delta of the start month of a financing event.
InitialDelta(e) ==
  IF e.type = "mortgage"
    THEN [liquidityDelta |-> 0,
          assetsDelta    |-> e.data.purchasePrice - e.data.loanedAmount,
          newBalance     |-> Some(InitialPrincipal(e))]
  ELSE PurchaseDelta(e)

\* C30: a mortgage, PCP or car loan whose start month precedes the month of
\* startDate never has the delta of its start month; in every month of its
\* term it is charged a payment; and in the first month of the projection
\* its tracked balance is paid down from the full initial principal.
C30_BegunBeforeAnchor ==
  monthIndex > 0 =>
    \A k \in DOMAIN events :
      LET e == events[k] IN
      (IsFinancing(e) /\ StartsAt(e) < startMonth.mi) =>
        /\ deltas[k] # InitialDelta(e)
        /\ InTerm(e, lastMonth) => deltas[k].liquidityDelta = FNeg(MonthlyPayment(e))
        /\ (InTerm(e, lastMonth) /\ monthIndex = 1 /\ e.type # "pcp") =>
             deltas[k].newBalance =
               Some(MathMax0(FSub(InitialPrincipal(e),
                                  FSub(BalancePayment(e),
                                       FMul(InitialPrincipal(e), MonthlyRateOf(e))))))

(* The value of a financed car. *)

\* purchasePrice minus the depreciation taken off the assets so far.
VehicleValue == FSub(vehicle[1].purchasePrice, vehicle[1].depreciated)

\* C28: over the months of a PCP's or a car loan's term the car's value,
\* purchasePrice minus the summed monthly depreciation, stays at or above the
\* minimum of 1500 pounds, and so at or above 0.
C28_ValueAboveMinimum ==
  vehicle # None => (VehicleValue >= MinimumCarValue /\ VehicleValue >= 0)

\* The car's value stays at or above 0.
C28_ValueAboveZero == vehicle # None => VehicleValue >= 0

(* The events table. *)

\* C22: after any sequence of POST and PUT (and DELETE) requests, the data of
\* every stored event passes validateEventData for the event's stored type.
C22_StoredDataValidForType ==
  \A row \in eventRows : validateEventData(row.type, row.data) = None

\* C23: after any sequence of requests, the mortgageEventId of every stored
\* mortgage_repayment is the id of a stored mortgage of the same plan.
C23_RepaymentReferencesMortgage ==
  \A row \in eventRows :
    row.type = "mortgage_repayment" =>
      \E m \in eventRows :
        /\ "mortgageEventId" \in DOMAIN row.data
        /\ m.id = row.data.mortgageEventId
        /\ m.type = "mortgage"
        /\ m.plan_id = row.plan_id

(* The chart-data route. *)

\* The integer the rangeYears parameter of the request parses to, or NaN.
Parsed == parseInt(chart[1].rangeYears)

\* C24: a chart-data request whose rangeYears parses to an integer outside
\* 5..20 is answered 400 and does not reach the calculator; one whose
\* rangeYears is missing or not numeric reaches it, if at all, with 10; and
\* the calculator is only ever called with 5 <= rangeYears <= 20.
C24_RangeYearsChecked ==
  (chart # None /\ chart[1].status # None) =>
    /\ (~IsNaN(Parsed) /\ (Parsed < 5 \/ Parsed > 20)) =>
         (chart[1].status = Some(400) /\ chart[1].calculated = None)
    /\ (IsNaN(Parsed) /\ chart[1].calculated # None) =>
         chart[1].calculated[1].rangeYears = 10
    /\ chart[1].calculated # None =>
         (5 <= chart[1].calculated[1].rangeYears /\ chart[1].calculated[1].rangeYears <= 20)

(* The user id of a request. *)

\* C25: while nobody is signed in, every request of a session gets the same
\* req.userId, generated once for the session, within [-100000000, -1000],
\* an id isUnauthenticatedUserId accepts and isAuthenticatedUserId rejects;
\* a request of a signed-in user gets the user's id.
C25_UserIdOfRequest ==
  /\ \A sid \in DOMAIN sessions :
       /\ Cardinality(sessions[sid].given) <= 1
       /\ sessions[sid].generated <= 1
       /\ sessions[sid].given # {} => sessions[sid].generated = 1
       /\ \A id \in sessions[sid].given :
            /\ -100000000 <= id /\ id <= -1000
            /\ isUnauthenticatedUserId(id)
            /\ ~isAuthenticatedUserId(id)
            /\ sessions[sid].userId = Some(id)
  /\ request # None =>
       /\ request[1].authenticated => request[1].userId = request[1].user
       /\ ~request[1].authenticated =>
            request[1].userId \in sessions[request[1].session].given

\* C25 witness: a session has been handed the id generated for it a second
\* time, while a signed-in user's request has just got the user's id in
\* another session.
C25_Witness ==
  /\ request # None /\ request[1].authenticated /\ request[1].userId \in Users
  /\ \E sid \in DOMAIN sessions :
       /\ sid # request[1].session
       /\ sessions[sid].again /\ sessions[sid].generated = 1
       /\ sessions[sid].user = None
       /\ sessions[sid].given = {MAX_UNAUTHENTICATED_ID}

(* Rows and objects. *)

\* C26: eventToRow(rowToEvent(row)) has the row's plan_id and type and a
\* data text that parses to the value the row's data parses to, and has no
\* id, created_at or updated_at; planToRow(rowToPlan(row)) has the row's
\* user_id, name and start_date.
C26_RowRoundTrip ==
  (conversion # None /\ conversion[1].result # None) =>
    LET row == conversion[1].row
        back == conversion[1].result[1]
    IN IF conversion[1].table = "events"
         THEN /\ back.plan_id = row.plan_id
              /\ back.type = row.type
              /\ JSONparse(back.data) = JSONparse(row.data)
              /\ DOMAIN back \cap {"id", "created_at", "updated_at"} = {}
       ELSE /\ back.user_id = row.user_id
            /\ back.name = row.name
            /\ back.start_date = row.start_date

\* C26 witness: an event row has come back whose data text is not the text
\* it had (a number written another way) and holds a null and a number.
C26_Witness ==
  /\ conversion # None /\ conversion[1].result # None
  /\ conversion[1].table = "events"
  /\ conversion[1].result[1].data # conversion[1].row.data
  /\ Len(conversion[1].row.data) = 2
  /\ \E key \in DOMAIN JSONparse(conversion[1].row.data) :
       JSONparse(conversion[1].row.data)[key] = JValue("null", 0, "")
  /\ \E key \in DOMAIN JSONparse(conversion[1].row.data) :
       JSONparse(conversion[1].row.data)[key] = JValue("number", Dec(5000, 0), "")

====
